---- MODULE Spec2Model ----
(***************************************************************************)
(* Model of the minted dashboard: the snapshot cache of the dashboard      *)
(* Service (single-flight RebuildCache, readers, settings updates, cache   *)
(* status) and the report builders of the hledger Parser.                  *)
(*                                                                         *)
(* The Service is the one of internal/hledger/parser.go lines 729-1418,    *)
(* the version with the date-filtered handlers; internal/dashboard/        *)
(* service.go is the same Service without the BudgetHistory query and      *)
(* without the filtered branches.                                          *)
(***************************************************************************)
EXTENDS Integers, Sequences, FiniteSets, TLC

(* ------------------------------ bounds --------------------------------- *)
\* goroutines serving POST /api/cache/refresh at the same time
NumRefreshers == 2
\* number of CachedData objects ever allocated
MaxSnapshots == 2
\* number of distinct settings documents a client can submit
NumSettings == 2
\* rows of category spending rolled up by one GetCategoryTrends call
TrendRows == 1

Refreshers == 1..NumRefreshers
\* the goroutine serving PUT /api/settings
Updaters == {NumRefreshers + 1}
\* the goroutine serving report and cache-status requests
Readers == {NumRefreshers + 2}
Procs == Refreshers \cup Updaters \cup Readers
SettingsSet == 0..(NumSettings - 1)
NoProc == 0
NilPtr == 0

(* ------------------------------ state ---------------------------------- *)
VARIABLES
  pc,               \* position of each request goroutine
  req,              \* the request a goroutine is serving
  cacheMu,          \* Service.cacheMu: the goroutine holding it exclusively, or NoProc
  cache,            \* Service.cache: pointer into heap, NilPtr when nil
  heap,             \* the CachedData objects allocated so far
  cacheRefreshing,  \* Service.cacheRefreshing
  svcSettings,      \* Service.settings
  parserSettings,   \* Parser.settings
  ledger,           \* version of the journal the hledger command reads
  clock,            \* readings of time.Now() taken for LastRefresh so far
  built,            \* RebuildCache locals: results of the queries done so far
  tiersRead,        \* GetCategoryTrends local: settings seen by each tier lookup
  err,              \* RebuildCache return value
  ref,              \* pointer a goroutine holds (getCache result or newCache)
  resp,             \* HTTP response written by the handler
  journal,          \* the transactions `hledger print` returns
  dateRange,        \* startDate and endDate of the filtered call made, if any
  catSpending,      \* what GetCategorySpending returned, if called
  catSpendingFiltered,  \* what GetCategorySpendingFiltered returned, if called
  netWorth,         \* what GetNetWorthOverTime returned, if called
  netWorthFiltered, \* what GetNetWorthOverTimeFiltered returned, if called
  currentMonth,     \* the month time.Now() falls in
  budget,           \* what GetBudgetData returned, if called
  historyFiltered,  \* what Get{Budget,Income}HistoryFiltered returned, if called
  settingsTiers,    \* Settings.Tiers as the parser holds them
  trends,           \* what GetCategoryTrends returned, if called
  detail,           \* the response a detail handler wrote, if called
  balanceData,      \* the account entries `hledger balance` prints
  accounts,         \* what GetAccounts / GetAccountsFiltered returned, if called
  settingsErr,      \* what the last call on Settings returned
  trendsFiltered,   \* what GetCategoryTrendsFiltered returned, if called
  runs              \* what successive calls of GetTierDetailFiltered returned

vars == <<pc, req, cacheMu, cache, heap, cacheRefreshing, svcSettings,
          parserSettings, ledger, clock, built, tiersRead, err, ref, resp,
         journal, dateRange, catSpending, catSpendingFiltered,
         netWorth, netWorthFiltered, currentMonth, budget, historyFiltered,
         settingsTiers, trends, detail,
         balanceData, accounts, settingsErr, trendsFiltered, runs>>

netWorthVars == <<netWorth, netWorthFiltered>>

budgetVars == <<currentMonth, budget, historyFiltered>>

tierVars == <<settingsTiers, trends, detail>>

accountVars == <<balanceData, accounts>>

restVars == <<accountVars, settingsErr, trendsFiltered, runs>>

reportVars == <<journal, dateRange, catSpending, catSpendingFiltered, netWorthVars,
                budgetVars, tierVars, restVars>>

\* no budget or history call has been made
BudgetIdle == currentMonth = <<>> /\ budget = {} /\ historyFiltered = {}

\* no tier is configured, no trends or detail call has been made
TiersIdle == settingsTiers = <<>> /\ trends = {} /\ detail = {}

\* no net-worth call has been made
NetWorthIdle == netWorth = {} /\ netWorthFiltered = {}

(* ----------------------- RebuildCache: the queries --------------------- *)
\* the parser calls of RebuildCache, in the order of the code
RebuildQueries ==
  <<"Accounts", "Transactions", "Budget", "BudgetHistory", "MonthlyMetrics",
    "CategorySpending", "NetWorthOverTime", "CategoryTrends", "YearOverYear">>

NumQueries == Len(RebuildQueries)

\* the CachedData field a handler serves; Summary is computed from Accounts
FieldIndex(name) ==
  LET f == IF name = "Summary" THEN "Accounts" ELSE name
  IN CHOOSE i \in 1..NumQueries : RebuildQueries[i] = f

NoReq == [kind |-> "none", handler |-> "none", filter |-> FALSE, settings |-> 0]
NoStatus == [hasCache |-> FALSE, inProgress |-> FALSE, lastRefresh |-> 0, stale |-> FALSE]
NoResp == [code |-> 0, msg |-> "", src |-> {}, val |-> <<>>, status |-> NoStatus]

\* errors.New("refresh already in progress")
ErrInProgress == "refresh already in progress"
\* the error of a failed hledger command or of malformed output
ErrUpstream == "upstream failure"
NoErr == "nil"

\* no balance output is at hand, no accounts call has been made
AccountsIdle == balanceData = <<>> /\ accounts = {}

\* nor any call on Settings, of the filtered trends or of the tier detail
RestIdle == AccountsIdle /\ settingsErr = NoErr /\ trendsFiltered = {} /\ runs = <<>>

(* ------------------------------ locking -------------------------------- *)
\* sync.RWMutex: Lock and RLock both wait while a goroutine holds the mutex
\* exclusively.  The section at the top of RebuildCache is modelled with the
\* mutex held across two steps; every other Lock..Unlock or RLock..RUnlock
\* section touches only fields that are always accessed under the mutex, so it
\* is one step that is taken while nobody holds the mutex.
CanLock == cacheMu = NoProc

(* ------------------------------ Init ----------------------------------- *)
\* the CachedData NewService installs when the warm-up rebuild succeeds
WarmSnapshot ==
  [data |-> [i \in 1..NumQueries |-> 0],
   tiers |-> [i \in 1..TrendRows |-> 0],
   LastRefresh |-> 1,
   Stale |-> FALSE]

\* NewService: the parser and the service share the loaded settings; the
\* warm-up RebuildCache either installed a snapshot or failed (best effort)
Init ==
  /\ pc = [p \in Procs |-> "idle"]
  /\ req = [p \in Procs |-> NoReq]
  /\ cacheMu = NoProc
  /\ cacheRefreshing = FALSE
  /\ svcSettings = 0
  /\ parserSettings = 0
  /\ ledger = 0
  /\ built = [p \in Procs |-> <<>>]
  /\ tiersRead = [p \in Procs |-> <<>>]
  /\ err = [p \in Procs |-> NoErr]
  /\ ref = [p \in Procs |-> NilPtr]
  /\ resp = [p \in Procs |-> NoResp]
  /\ journal = <<>> /\ dateRange = <<>>
  /\ catSpending = {} /\ catSpendingFiltered = {}
  /\ NetWorthIdle
  /\ BudgetIdle
  /\ TiersIdle
  /\ RestIdle
  /\ \/ cache = NilPtr /\ heap = <<>> /\ clock = 0
     \/ cache = 1 /\ heap = <<WarmSnapshot>> /\ clock = 1

(* ------------------ HandleCacheRefresh / RebuildCache ------------------ *)
\* HandleCacheRefresh without its branch for "refresh already in progress"
RefreshResponseHard(e) ==
  IF e = NoErr THEN [NoResp EXCEPT !.code = 200, !.msg = "cache rebuilt"]
  ELSE [NoResp EXCEPT !.code = 500, !.msg = e]

\* the response HandleCacheRefresh writes for the value RebuildCache returned
RefreshResponse(e) ==
  IF e = NoErr THEN [NoResp EXCEPT !.code = 200, !.msg = "cache rebuilt"]
  ELSE IF e = ErrInProgress
         THEN [NoResp EXCEPT !.code = 202, !.msg = "refresh already in progress",
                             !.status = [NoStatus EXCEPT !.inProgress = TRUE]]
  ELSE [NoResp EXCEPT !.code = 500, !.msg = e]

\* the RebuildCache calls that may still allocate a snapshot
Pending ==
  Cardinality({q \in Procs : pc[q] \in {"rb_lock", "rb_check", "rb_query", "rb_rollup", "rb_new"}})

\* POST /api/cache/refresh arrives: HandleCacheRefresh calls RebuildCache
StartRefresh(p) ==
  /\ pc[p] = "idle"
  /\ Len(heap) + Pending < MaxSnapshots
  /\ pc' = [pc EXCEPT ![p] = "rb_lock"]
  /\ req' = [req EXCEPT ![p] = [NoReq EXCEPT !.kind = "refresh"]]
  /\ UNCHANGED reportVars
  /\ UNCHANGED <<cacheMu, cache, heap, cacheRefreshing, svcSettings, parserSettings,
                 ledger, clock, built, tiersRead, err, ref, resp>>

\* s.cacheMu.Lock() at the top of RebuildCache
RebuildLock(p) ==
  /\ pc[p] = "rb_lock"
  /\ CanLock
  /\ cacheMu' = p
  /\ pc' = [pc EXCEPT ![p] = "rb_check"]
  /\ UNCHANGED reportVars
  /\ UNCHANGED <<req, cache, heap, cacheRefreshing, svcSettings, parserSettings,
                 ledger, clock, built, tiersRead, err, ref, resp>>

\* the check at the top of RebuildCache without `s.cacheRefreshing = true`
RebuildCheckNoFlag(p) ==
  /\ pc[p] = "rb_check"
  /\ cacheMu = p
  /\ cacheMu' = NoProc
  /\ IF cacheRefreshing
       THEN /\ err' = [err EXCEPT ![p] = ErrInProgress]
            /\ resp' = [resp EXCEPT ![p] = RefreshResponse(ErrInProgress)]
            /\ pc' = [pc EXCEPT ![p] = "done"]
       ELSE /\ pc' = [pc EXCEPT ![p] = "rb_query"]
            /\ UNCHANGED <<err, resp>>
  /\ UNCHANGED reportVars
  /\ UNCHANGED <<req, cache, heap, cacheRefreshing, svcSettings, parserSettings,
                 ledger, clock, built, tiersRead, ref>>

\* if s.cacheRefreshing { Unlock; return error }; s.cacheRefreshing = true; Unlock
\* On the error return HandleCacheRefresh writes its response at once.
RebuildCheck(p) ==
  /\ pc[p] = "rb_check"
  /\ cacheMu = p
  /\ cacheMu' = NoProc
  /\ IF cacheRefreshing
       THEN /\ err' = [err EXCEPT ![p] = ErrInProgress]
            /\ resp' = [resp EXCEPT ![p] = RefreshResponse(ErrInProgress)]
            /\ pc' = [pc EXCEPT ![p] = "done"]
            /\ UNCHANGED cacheRefreshing
       ELSE /\ cacheRefreshing' = TRUE
            /\ pc' = [pc EXCEPT ![p] = "rb_query"]
            /\ UNCHANGED <<err, resp>>
  /\ UNCHANGED reportVars
  /\ UNCHANGED <<req, cache, heap, svcSettings, parserSettings,
                 ledger, clock, built, tiersRead, ref>>

\* a parser call of RebuildCache whose failure also drops the installed snapshot
RebuildQueryDropsCache(p) ==
  /\ pc[p] = "rb_query"
  /\ Len(built[p]) < NumQueries
  /\ \/ /\ err' = [err EXCEPT ![p] = ErrUpstream]
        /\ pc' = [pc EXCEPT ![p] = "rb_defer"]
        /\ cache' = NilPtr
        /\ UNCHANGED built
     \/ /\ built' = [built EXCEPT ![p] = Append(@, ledger)]
        /\ pc' = [pc EXCEPT ![p] =
                    IF RebuildQueries[Len(built[p]) + 1] = "CategoryTrends" THEN "rb_rollup"
                    ELSE IF Len(built[p]) + 1 = NumQueries THEN "rb_new"
                    ELSE "rb_query"]
        /\ UNCHANGED <<err, cache>>
  /\ UNCHANGED reportVars
  /\ UNCHANGED <<req, cacheMu, heap, cacheRefreshing, svcSettings,
                 parserSettings, ledger, clock, tiersRead, ref, resp>>

\* a parser call of RebuildCache whose failure returns without running the
\* deferred function
RebuildQueryReturnsAtOnce(p) ==
  /\ pc[p] = "rb_query"
  /\ Len(built[p]) < NumQueries
  /\ \/ /\ err' = [err EXCEPT ![p] = ErrUpstream]
        /\ resp' = [resp EXCEPT ![p] = RefreshResponse(ErrUpstream)]
        /\ pc' = [pc EXCEPT ![p] = "done"]
        /\ UNCHANGED built
     \/ /\ built' = [built EXCEPT ![p] = Append(@, ledger)]
        /\ pc' = [pc EXCEPT ![p] =
                    IF RebuildQueries[Len(built[p]) + 1] = "CategoryTrends" THEN "rb_rollup"
                    ELSE IF Len(built[p]) + 1 = NumQueries THEN "rb_new"
                    ELSE "rb_query"]
        /\ UNCHANGED <<err, resp>>
  /\ UNCHANGED reportVars
  /\ UNCHANGED <<req, cacheMu, cache, heap, cacheRefreshing, svcSettings,
                 parserSettings, ledger, clock, tiersRead, ref>>

\* the next parser call of RebuildCache: it runs hledger on the journal and
\* either fails (return err, the deferred function runs) or yields its result
RebuildQuery(p) ==
  /\ pc[p] = "rb_query"
  /\ Len(built[p]) < NumQueries
  /\ LET q == RebuildQueries[Len(built[p]) + 1] IN
     \/ /\ err' = [err EXCEPT ![p] = ErrUpstream]
        /\ pc' = [pc EXCEPT ![p] = "rb_defer"]
        /\ UNCHANGED built
     \/ /\ built' = [built EXCEPT ![p] = Append(@, ledger)]
        /\ pc' = [pc EXCEPT ![p] =
                    IF q = "CategoryTrends" THEN "rb_rollup"
                    ELSE IF Len(built[p]) + 1 = NumQueries THEN "rb_new"
                    ELSE "rb_query"]
        /\ UNCHANGED err
  /\ UNCHANGED reportVars
  /\ UNCHANGED <<req, cacheMu, cache, heap, cacheRefreshing, svcSettings,
                 parserSettings, ledger, clock, tiersRead, ref, resp>>

\* a rollup after which RebuildCache builds the snapshot at once, leaving out
\* the queries that follow GetCategoryTrends
RebuildRollupThenInstall(p) ==
  /\ pc[p] = "rb_rollup"
  /\ tiersRead' = [tiersRead EXCEPT ![p] = Append(@, parserSettings)]
  /\ pc' = [pc EXCEPT ![p] =
              IF Len(tiersRead[p]) + 1 < TrendRows THEN "rb_rollup" ELSE "rb_new"]
  /\ UNCHANGED reportVars
  /\ UNCHANGED <<req, cacheMu, cache, heap, cacheRefreshing, svcSettings,
                 parserSettings, ledger, clock, built, err, ref, resp>>

\* GetCategoryTrends: one p.settings.GetTierForCategory lookup of the rollup
\* loop; p.settings is read without any lock at each lookup
RebuildRollup(p) ==
  /\ pc[p] = "rb_rollup"
  /\ tiersRead' = [tiersRead EXCEPT ![p] = Append(@, parserSettings)]
  /\ pc' = [pc EXCEPT ![p] =
              IF Len(tiersRead[p]) + 1 < TrendRows THEN "rb_rollup"
              ELSE IF Len(built[p]) = NumQueries THEN "rb_new"
              ELSE "rb_query"]
  /\ UNCHANGED reportVars
  /\ UNCHANGED <<req, cacheMu, cache, heap, cacheRefreshing, svcSettings,
                 parserSettings, ledger, clock, built, err, ref, resp>>

\* a CachedData literal with `Stale: true`
NewCachedDataStale(data, tiers, now) ==
  [data |-> data, tiers |-> tiers, LastRefresh |-> now, Stale |-> TRUE]

\* the object newCache points to: every field set from the locals
NewCachedData(data, tiers, now) ==
  [data |-> data, tiers |-> tiers, LastRefresh |-> now, Stale |-> FALSE]

\* newCache := &CachedData{..., LastRefresh: time.Now(), Stale: false}
RebuildNew(p) ==
  /\ pc[p] = "rb_new"
  /\ Len(heap) < MaxSnapshots
  /\ clock' = clock + 1
  /\ heap' = Append(heap, NewCachedData(built[p], tiersRead[p], clock + 1))
  /\ ref' = [ref EXCEPT ![p] = Len(heap) + 1]
  /\ pc' = [pc EXCEPT ![p] = "rb_install"]
  /\ UNCHANGED reportVars
  /\ UNCHANGED <<req, cacheMu, cache, cacheRefreshing, svcSettings,
                 parserSettings, ledger, built, tiersRead, err, resp>>

\* the final critical section of RebuildCache without `s.cache = newCache`
InstallSwapNoAssign(p) ==
  /\ pc[p] = "rb_install"
  /\ CanLock
  /\ pc' = [pc EXCEPT ![p] = "rb_defer"]
  /\ UNCHANGED reportVars
  /\ UNCHANGED <<req, cacheMu, cache, heap, cacheRefreshing, svcSettings, parserSettings,
                 ledger, clock, built, tiersRead, err, ref, resp>>

\* s.cacheMu.Lock(); s.cache = newCache; s.cacheMu.Unlock(); return nil
InstallSwap(p) ==
  /\ pc[p] = "rb_install"
  /\ CanLock
  /\ cache' = ref[p]
  /\ pc' = [pc EXCEPT ![p] = "rb_defer"]
  /\ UNCHANGED reportVars
  /\ UNCHANGED <<req, cacheMu, heap, cacheRefreshing, svcSettings, parserSettings,
                 ledger, clock, built, tiersRead, err, ref, resp>>

\* the deferred function: Lock; s.cacheRefreshing = false; Unlock.  RebuildCache
\* has returned and HandleCacheRefresh writes its response.
DeferClear(p) ==
  /\ pc[p] = "rb_defer"
  /\ CanLock
  /\ cacheRefreshing' = FALSE
  /\ resp' = [resp EXCEPT ![p] = RefreshResponse(err[p])]
  /\ pc' = [pc EXCEPT ![p] = "done"]
  /\ UNCHANGED reportVars
  /\ UNCHANGED <<req, cacheMu, cache, heap, svcSettings, parserSettings,
                 ledger, clock, built, tiersRead, err, ref>>

\* the response has been sent: the goroutine ends and its locals are gone
Finish(p) ==
  /\ pc[p] = "done"
  /\ pc' = [pc EXCEPT ![p] = "idle"]
  /\ req' = [req EXCEPT ![p] = NoReq]
  /\ built' = [built EXCEPT ![p] = <<>>]
  /\ tiersRead' = [tiersRead EXCEPT ![p] = <<>>]
  /\ err' = [err EXCEPT ![p] = NoErr]
  /\ ref' = [ref EXCEPT ![p] = NilPtr]
  /\ resp' = [resp EXCEPT ![p] = NoResp]
  /\ UNCHANGED reportVars
  /\ UNCHANGED <<cacheMu, cache, heap, cacheRefreshing, svcSettings,
                 parserSettings, ledger, clock>>

(* ------------------------- HandleUpdateSettings ------------------------ *)
\* c.BindJSON: a body that does not parse is answered 400; otherwise
\* s.settings = &updatedSettings (written without holding cacheMu)
UpdateBind(p, v) ==
  /\ pc[p] = "idle"
  /\ req' = [req EXCEPT ![p] = [NoReq EXCEPT !.kind = "update", !.settings = v]]
  /\ \/ /\ resp' = [resp EXCEPT ![p] =
                      [NoResp EXCEPT !.code = 400, !.msg = "invalid settings format"]]
        /\ pc' = [pc EXCEPT ![p] = "done"]
        /\ UNCHANGED svcSettings
     \/ /\ svcSettings' = v
        /\ pc' = [pc EXCEPT ![p] = "us_parser"]
        /\ UNCHANGED resp
  /\ UNCHANGED reportVars
  /\ UNCHANGED <<cacheMu, cache, heap, cacheRefreshing, parserSettings,
                 ledger, clock, built, tiersRead, err, ref>>

\* s.parser.UpdateSettings(&updatedSettings): p.settings = settings, no lock
UpdateSettings(p) ==
  /\ pc[p] = "us_parser"
  /\ parserSettings' = req[p].settings
  /\ pc' = [pc EXCEPT ![p] = "us_mark"]
  /\ UNCHANGED reportVars
  /\ UNCHANGED <<req, cacheMu, cache, heap, cacheRefreshing, svcSettings,
                 ledger, clock, built, tiersRead, err, ref, resp>>

\* a marking that also throws the cached reports away
MarkStaleDropsData(h, c) ==
  IF c = NilPtr THEN h ELSE [h EXCEPT ![c].Stale = TRUE, ![c].data = <<>>]

\* if s.cache != nil { s.cache.Stale = true }: a write into the installed object
MarkStale(h, c) ==
  IF c = NilPtr THEN h ELSE [h EXCEPT ![c].Stale = TRUE]

\* s.cacheMu.Lock(); the marking; s.cacheMu.Unlock()
UpdateMark(p) ==
  /\ pc[p] = "us_mark"
  /\ CanLock
  /\ heap' = MarkStale(heap, cache)
  /\ pc' = [pc EXCEPT ![p] = "us_save"]
  /\ UNCHANGED reportVars
  /\ UNCHANGED <<req, cacheMu, cache, cacheRefreshing, svcSettings, parserSettings,
                 ledger, clock, built, tiersRead, err, ref, resp>>

\* config.SaveSettings: settings.json is written (200) or the write fails (500)
UpdateSave(p) ==
  /\ pc[p] = "us_save"
  /\ \/ resp' = [resp EXCEPT ![p] =
                   [NoResp EXCEPT !.code = 200, !.msg = "settings updated successfully"]]
     \/ resp' = [resp EXCEPT ![p] =
                   [NoResp EXCEPT !.code = 500, !.msg = "failed to write settings file"]]
  /\ pc' = [pc EXCEPT ![p] = "done"]
  /\ UNCHANGED reportVars
  /\ UNCHANGED <<req, cacheMu, cache, heap, cacheRefreshing, svcSettings,
                 parserSettings, ledger, clock, built, tiersRead, err, ref>>

(* --------------------------- report handlers --------------------------- *)
\* handlers that serve a field of the cached snapshot when no range is given
CachedHandlers ==
  {"Accounts", "Transactions", "Summary", "Budget", "BudgetHistory",
   "MonthlyMetrics", "CategorySpending", "NetWorthOverTime", "CategoryTrends",
   "YearOverYear"}

\* handlers that call the parser on every request and never use the cache
DirectHandlers ==
  {"IncomeBreakdown", "IncomeHistory", "CategoryDetail", "TierDetail",
   "AccountDetail", "IncomeDetail"}

\* handlers that require a name parameter
DetailHandlers == {"CategoryDetail", "TierDetail", "AccountDetail", "IncomeDetail"}

Handlers == CachedHandlers \cup DirectHandlers

\* handlers whose code has an `if s.hasDateFilter(c)` branch
FilterBranch == Handlers \ {"Budget"}

\* hasDateFilter: both startDate and endDate are non-empty
hasDateFilter(startDate, endDate) == startDate /\ endDate

\* the hledger queries a ...Filtered parser method issues: "range" carries the
\* date arguments, "all" does not (GetBudgetHistory inside the detail builders)
FilteredQueries(h) ==
  IF h \in {"CategoryDetail", "TierDetail"} THEN {"range", "all"} ELSE {"range"}

\* the value a parser call returns: the journal it read and, where the
\* builder consults p.settings, the settings it saw
ParserValue(h) ==
  IF h \in {"CategoryTrends", "CategoryDetail", "TierDetail", "IncomeDetail"}
    THEN <<ledger, parserSettings>> ELSE <<ledger>>

\* a handler taking its date-filter branch: the ...Filtered parser method
HandleFiltered(p, h) ==
  /\ pc[p] = "idle"
  /\ h \in FilterBranch
  /\ req' = [req EXCEPT ![p] = [NoReq EXCEPT !.kind = "read", !.handler = h,
                                             !.filter = hasDateFilter(TRUE, TRUE)]]
  /\ \/ /\ h \in DetailHandlers
        /\ resp' = [resp EXCEPT ![p] =
                      [NoResp EXCEPT !.code = 400, !.msg = "parameter required"]]
     \/ /\ h = "TierDetail"
        /\ resp' = [resp EXCEPT ![p] =
                      [NoResp EXCEPT !.code = 404, !.msg = "tier not found"]]
     \/ resp' = [resp EXCEPT ![p] =
                   [NoResp EXCEPT !.code = 500, !.msg = ErrUpstream,
                                  !.src = FilteredQueries(h)]]
     \/ resp' = [resp EXCEPT ![p] =
                   [NoResp EXCEPT !.code = 200, !.src = FilteredQueries(h),
                                  !.val = ParserValue(h)]]
  /\ pc' = [pc EXCEPT ![p] = "done"]
  /\ UNCHANGED reportVars
  /\ UNCHANGED <<cacheMu, cache, heap, cacheRefreshing, svcSettings, parserSettings,
                 ledger, clock, built, tiersRead, err, ref>>

\* a handler without cached field, no date range given: the unfiltered parser method
HandleDirect(p, h) ==
  /\ pc[p] = "idle"
  /\ h \in DirectHandlers
  /\ req' = [req EXCEPT ![p] = [NoReq EXCEPT !.kind = "read", !.handler = h,
                                             !.filter = FALSE]]
  /\ \/ /\ h \in DetailHandlers
        /\ resp' = [resp EXCEPT ![p] =
                      [NoResp EXCEPT !.code = 400, !.msg = "parameter required"]]
     \/ /\ h = "TierDetail"
        /\ resp' = [resp EXCEPT ![p] =
                      [NoResp EXCEPT !.code = 404, !.msg = "tier not found"]]
     \/ resp' = [resp EXCEPT ![p] =
                   [NoResp EXCEPT !.code = 500, !.msg = ErrUpstream, !.src = {"all"}]]
     \/ resp' = [resp EXCEPT ![p] =
                   [NoResp EXCEPT !.code = 200, !.src = {"all"}, !.val = ParserValue(h)]]
  /\ pc' = [pc EXCEPT ![p] = "done"]
  /\ UNCHANGED reportVars
  /\ UNCHANGED <<cacheMu, cache, heap, cacheRefreshing, svcSettings, parserSettings,
                 ledger, clock, built, tiersRead, err, ref>>

\* a handler reaching `cache, ok := s.getCache()`: the handler has no filter
\* branch or the request has no date range; getCache copies s.cache under RLock
getCache(p, h, f) ==
  /\ pc[p] = "idle"
  /\ h \in CachedHandlers
  /\ f => h \notin FilterBranch
  /\ CanLock
  /\ req' = [req EXCEPT ![p] = [NoReq EXCEPT !.kind = "read", !.handler = h, !.filter = f]]
  /\ ref' = [ref EXCEPT ![p] = cache]
  /\ pc' = [pc EXCEPT ![p] = "rd_serve"]
  /\ UNCHANGED reportVars
  /\ UNCHANGED <<cacheMu, cache, heap, cacheRefreshing, svcSettings, parserSettings,
                 ledger, clock, built, tiersRead, err, resp>>

\* the field of a CachedData object a handler writes to the response
SnapshotField(snap, h) ==
  IF h = "CategoryTrends" THEN <<snap.data[FieldIndex(h)]>> \o snap.tiers
  ELSE <<snap.data[FieldIndex(h)]>>

\* after getCache: 202 "cache empty; refresh required" or the cached field,
\* read through the pointer without holding the lock
ServeCached(p) ==
  /\ pc[p] = "rd_serve"
  /\ resp' = [resp EXCEPT ![p] =
       IF ref[p] = NilPtr
         THEN [NoResp EXCEPT !.code = 202, !.msg = "cache empty; refresh required",
                             !.src = {"cache"}]
         ELSE [NoResp EXCEPT !.code = 200, !.src = {"cache"},
                             !.val = SnapshotField(heap[ref[p]], req[p].handler)]]
  /\ pc' = [pc EXCEPT ![p] = "done"]
  /\ UNCHANGED reportVars
  /\ UNCHANGED <<req, cacheMu, cache, heap, cacheRefreshing, svcSettings,
                 parserSettings, ledger, clock, built, tiersRead, err, ref>>

\* the cache metadata HandleCacheStatus reports
CacheStatus ==
  IF cache = NilPtr
    THEN [hasCache |-> FALSE, inProgress |-> cacheRefreshing,
          lastRefresh |-> 0, stale |-> FALSE]
    ELSE [hasCache |-> TRUE, inProgress |-> cacheRefreshing,
          lastRefresh |-> heap[cache].LastRefresh, stale |-> heap[cache].Stale]

\* HandleCacheStatus: the whole handler runs under RLock
HandleCacheStatus(p) ==
  /\ pc[p] = "idle"
  /\ CanLock
  /\ req' = [req EXCEPT ![p] = [NoReq EXCEPT !.kind = "status"]]
  /\ resp' = [resp EXCEPT ![p] = [NoResp EXCEPT !.code = 200, !.status = CacheStatus]]
  /\ pc' = [pc EXCEPT ![p] = "done"]
  /\ UNCHANGED reportVars
  /\ UNCHANGED <<cacheMu, cache, heap, cacheRefreshing, svcSettings, parserSettings,
                 ledger, clock, built, tiersRead, err, ref>>

(* ------------------------------- Next ---------------------------------- *)
\* one call of RebuildCache by goroutine p, from its Lock to its return
RebuildSteps(p) ==
  \/ RebuildLock(p) \/ RebuildCheck(p) \/ RebuildQuery(p) \/ RebuildRollup(p)
  \/ RebuildNew(p) \/ InstallSwap(p) \/ DeferClear(p)

\* a goroutine serving cache refreshes, one request after the other
RefreshSteps(p) == StartRefresh(p) \/ RebuildSteps(p) \/ Finish(p)

\* a goroutine serving settings updates, one request after the other
UpdateSteps(p) ==
  \/ \E v \in SettingsSet : UpdateBind(p, v)
  \/ UpdateSettings(p) \/ UpdateMark(p) \/ UpdateSave(p)
  \/ Finish(p)

\* a goroutine reading the cache: cached reports and the cache status
ReadSteps(p) ==
  \/ \E h \in {"Accounts", "CategoryTrends"} : getCache(p, h, FALSE)
  \/ ServeCached(p)
  \/ HandleCacheStatus(p)
  \/ Finish(p)

\* a goroutine serving any report request, with or without a date range
HandlerSteps(p) ==
  \/ \E h \in Handlers, startDate \in BOOLEAN, endDate \in BOOLEAN :
        getCache(p, h, hasDateFilter(startDate, endDate))
  \/ \E h \in Handlers : HandleFiltered(p, h) \/ HandleDirect(p, h)
  \/ ServeCached(p)
  \/ Finish(p)

\* the refresher that runs against the settings updates and the readers
OneRefresher == {CHOOSE p \in Refreshers : \A q \in Refreshers : p <= q}

\* Spec: a cache refresh running against settings updates
Next ==
  \/ \E p \in OneRefresher : RefreshSteps(p)
  \/ \E p \in Updaters : UpdateSteps(p)

Spec == Init /\ [][Next]_vars

\* SpecRefresh: any number of concurrent cache refreshes
NextRefresh == \E p \in Refreshers : RefreshSteps(p)

SpecRefresh == Init /\ [][NextRefresh]_vars

\* SpecRead: a reader running against a cache refresh
NextRead ==
  \/ \E p \in OneRefresher : RefreshSteps(p)
  \/ \E p \in Readers : ReadSteps(p)

SpecRead == Init /\ [][NextRead]_vars

\* SpecHandlers: every report handler, with and without a date range
NextHandlers == \E p \in Readers : HandlerSteps(p)

SpecHandlers == Init /\ [][NextHandlers]_vars

\* SpecTwoCalls: two RebuildCache calls that have both been made against an
\* empty cache, and nothing else
TwoCallers == {p \in Refreshers : p <= 2}

InitTwoCalls ==
  /\ pc = [p \in Procs |-> IF p \in TwoCallers THEN "rb_lock" ELSE "idle"]
  /\ req = [p \in Procs |->
              IF p \in TwoCallers THEN [NoReq EXCEPT !.kind = "refresh"] ELSE NoReq]
  /\ cacheMu = NoProc
  /\ cacheRefreshing = FALSE
  /\ svcSettings = 0
  /\ parserSettings = 0
  /\ ledger = 0
  /\ built = [p \in Procs |-> <<>>]
  /\ tiersRead = [p \in Procs |-> <<>>]
  /\ err = [p \in Procs |-> NoErr]
  /\ ref = [p \in Procs |-> NilPtr]
  /\ resp = [p \in Procs |-> NoResp]
  /\ journal = <<>> /\ dateRange = <<>>
  /\ catSpending = {} /\ catSpendingFiltered = {}
  /\ NetWorthIdle
  /\ BudgetIdle
  /\ TiersIdle
  /\ RestIdle
  /\ cache = NilPtr /\ heap = <<>> /\ clock = 0

NextTwoCalls == \E p \in TwoCallers : RebuildSteps(p)

SpecTwoCalls == InitTwoCalls /\ [][NextTwoCalls]_vars

(* ======================= single-flight rebuild ========================= *)
\* a caller of RebuildCache that has set cacheRefreshing and not yet cleared it
InFlight(p) == pc[p] \in {"rb_query", "rb_rollup", "rb_new", "rb_install", "rb_defer"}

\* C1: at most one cache rebuild is in flight at any time: no two callers of
\* RebuildCache are at the same time between setting and clearing the
\* in-progress flag.
C1_SingleFlight ==
  \A p, q \in Procs : (InFlight(p) /\ InFlight(q)) => p = q

\* a rebuild is in flight while another caller has been turned away
C1_Witness ==
  \E p, q \in Procs : p # q /\ InFlight(p) /\ pc[q] = "done" /\ err[q] = ErrInProgress

\* the mutex is only ever held by a goroutine inside the check at the top of
\* RebuildCache, never by one that is running a ledger query
HolderInCheck == cacheMu # NoProc => pc[cacheMu] = "rb_check"

\* the step of caller p that finds the in-progress flag set
C3_Rejection(p) ==
  (pc[p] = "rb_check" /\ cacheRefreshing /\ pc'[p] # pc[p]) =>
     /\ pc'[p] = "done"
     /\ err'[p] = ErrInProgress
     /\ built'[p] = <<>>
     /\ resp'[p].code = 202
     /\ resp'[p].msg = ErrInProgress
     /\ resp'[p].status.inProgress
     /\ UNCHANGED <<cache, heap, cacheRefreshing, ledger, clock>>

\* C3: a rebuild request made while another rebuild is running fails at once
\* with "refresh already in progress": it never waits for the running rebuild
\* (the mutex is not held across ledger queries), runs no ledger query,
\* leaves the snapshot and the in-progress flag as they are, and the refresh
\* handler answers 202 with inProgress instead of a hard error.
C3_RejectedAtOnce ==
  /\ [][\A p \in Procs : C3_Rejection(p)]_vars
  /\ [](HolderInCheck /\
        \A p \in Procs : (pc[p] = "done" /\ err[p] = ErrInProgress) =>
                            (resp[p].code = 202 /\ built[p] = <<>> /\ ref[p] = NilPtr))

\* a caller has been answered 202 while the rebuild it ran into is still running
C3_Witness ==
  \E p, q \in Procs :
     /\ p # q /\ pc[p] = "done" /\ resp[p].code = 202 /\ resp[p].status.inProgress
     /\ pc[q] = "rb_query" /\ cacheRefreshing

\* both calls of SpecTwoCalls have returned and no ledger query failed
TwoCallsDone ==
  /\ \A p \in TwoCallers : pc[p] = "done"
  /\ \A p \in TwoCallers : resp[p].code # 500

BuiltWithOtherThan(s) ==
  /\ cache # NilPtr
  /\ \E i \in DOMAIN heap[cache].tiers : heap[cache].tiers[i] # s

\* C2: the settings swap and the marking of the snapshot as stale are atomic
\* with respect to a rebuild: once a settings update has completed, an
\* installed snapshot computed with the tiers from before that update is
\* reported as stale.
C2_SwapAndMarkAtomic ==
  \A u \in Updaters :
     (/\ pc[u] = "done" /\ req[u].kind = "update" /\ resp[u].code = 200
      /\ parserSettings = req[u].settings
      /\ BuiltWithOtherThan(req[u].settings))
        => CacheStatus.stale

\* the step of a rebuild p that is not the pointer swap
C5_BeforeOrAfterSwap(p) ==
  (/\ pc[p] \in {"rb_lock", "rb_check", "rb_query", "rb_rollup", "rb_defer"}
   /\ <<pc'[p], built'[p], tiersRead'[p]>> # <<pc[p], built[p], tiersRead[p]>>)
     => /\ UNCHANGED <<cache, heap>>
        /\ \A q \in Procs \ {p} : resp'[q] = resp[q]

\* C5: a rebuild in which a ledger query fails leaves the cache as it was:
\* snapshot, stale and lastRefresh keep their values, nothing that was built
\* is installed (the call never allocates or swaps a snapshot), and the error
\* goes to the caller alone, whose handler answers 500.
C5_FailureLeavesCache ==
  /\ [][\A p \in Procs : C5_BeforeOrAfterSwap(p)]_vars
  /\ [](\A p \in Procs : err[p] = ErrUpstream =>
            /\ pc[p] \in {"rb_defer", "done"}
            /\ ref[p] = NilPtr
            /\ (pc[p] = "done" => resp[p].code = 500))

\* a rebuild has failed over a snapshot that was stale, and it still is
C5_Witness ==
  \E p \in Procs :
     /\ pc[p] = "done" /\ err[p] = ErrUpstream /\ resp[p].code = 500
     /\ cache # NilPtr /\ heap[cache].Stale /\ Len(heap) = 1

\* the step in which a settings update marks an existing snapshot
C7_Mark(u) ==
  (pc[u] = "us_mark" /\ pc'[u] = "us_save" /\ cache # NilPtr) =>
     /\ cache' = cache
     /\ heap'[cache].Stale
     /\ heap'[cache].data = heap[cache].data
     /\ heap'[cache].tiers = heap[cache].tiers
     /\ heap'[cache].LastRefresh = heap[cache].LastRefresh
     /\ \A i \in DOMAIN heap : i # cache => heap'[i] = heap[i]
     /\ DOMAIN heap' = DOMAIN heap

\* a step of the settings update u
C7_NoRebuildStarted(u) ==
  (pc'[u] # pc[u]) =>
     /\ cacheRefreshing' = cacheRefreshing
     /\ cache' = cache
     /\ \A r \in Refreshers : pc'[r] = pc[r]

\* C7: a settings update that finds a snapshot sets its stale flag and changes
\* nothing else (the snapshot stays installed with its data and lastRefresh),
\* starts no rebuild, and the status keeps reporting stale for as long as that
\* snapshot is the installed one, i.e. until a rebuild installs another.
C7_UpdateMarksStale ==
  /\ [][\A u \in Updaters : C7_Mark(u) /\ C7_NoRebuildStarted(u)]_vars
  /\ [][(CacheStatus.stale /\ cache' = cache) => CacheStatus'.stale]_vars

\* an update has just marked a snapshot that was fresh
C7_Witness ==
  \E u \in Updaters :
     /\ pc[u] = "us_save" /\ cache # NilPtr /\ heap[cache].Stale
     /\ ~cacheRefreshing

\* the pointer swap of rebuild p
C8_Swap(p) ==
  (pc[p] = "rb_install" /\ pc'[p] = "rb_defer") =>
     /\ cache' = ref[p]
     /\ cache' # cache
     /\ heap'[cache'].data = built[p]
     /\ CacheStatus'.hasCache
     /\ ~CacheStatus'.stale
     /\ CacheStatus'.lastRefresh >= CacheStatus.lastRefresh

\* C8: a rebuild all of whose queries succeed installs the snapshot it built,
\* whatever the cache held before (nothing, a fresh or a stale snapshot), and
\* right after the swap the status reports hasSnapshot true and stale false.
C8_SuccessInstalls ==
  /\ [][\A p \in Procs : C8_Swap(p)]_vars
  /\ [](\A p \in Procs : (pc[p] = "done" /\ req[p].kind = "refresh" /\ resp[p].code = 200)
            => (ref[p] # NilPtr /\ cache # NilPtr))

\* a rebuild has just replaced a stale snapshot by the one it built
C8_Witness ==
  \E p \in Procs :
     /\ pc[p] = "rb_defer" /\ err[p] = NoErr /\ cache = ref[p]
     /\ \E i \in DOMAIN heap : i # cache /\ heap[i].Stale
     /\ ~heap[cache].Stale

(* ========================= readers of the cache ======================== *)
\* the snapshots that have been installed at some time: every allocated one
\* except those a rebuild has built and not yet swapped in
Installed ==
  {i \in DOMAIN heap : \A q \in Procs : ~(pc[q] = "rb_install" /\ ref[q] = i)}

\* a snapshot with every field of CachedData filled in
Complete(snap) ==
  /\ Len(snap.data) = NumQueries
  /\ Len(snap.tiers) = TrendRows

\* the step in which reader r takes the cache pointer
C6_Take(r) ==
  (pc[r] = "idle" /\ pc'[r] = "rd_serve") =>
     /\ ref'[r] = cache
     /\ UNCHANGED <<cache, heap, cacheRefreshing>>

\* C6: a reader never blocks on a rebuild (the mutex is never held across a
\* ledger query, so the pointer read is always at most one short critical
\* section away) and gets either a complete snapshot that has been installed,
\* the old one or the newly built one, or "cache empty; refresh required"
\* when it found no snapshot; it never sees a snapshot under construction.
C6_ReaderSeesInstalled ==
  /\ [][\A r \in Readers : C6_Take(r)]_vars
  /\ [](/\ HolderInCheck
        /\ \A r \in Readers :
             /\ (pc[r] = "idle" /\ CanLock) => ENABLED getCache(r, "Accounts", FALSE)
             /\ (pc[r] = "rd_serve" /\ ref[r] # NilPtr) =>
                    (ref[r] \in Installed /\ Complete(heap[ref[r]]))
             /\ (pc[r] = "done" /\ req[r].kind = "read" /\ resp[r].code = 200) =>
                    /\ ref[r] \in Installed
                    /\ Complete(heap[ref[r]])
                    /\ resp[r].val = SnapshotField(heap[ref[r]], req[r].handler)
             /\ (pc[r] = "done" /\ req[r].kind = "read" /\ resp[r].code = 202) =>
                    (ref[r] = NilPtr /\ resp[r].msg = "cache empty; refresh required"))

\* a reader has been served the old snapshot while a rebuild holds a finished
\* one that it has not installed yet
C6_Witness ==
  \E r \in Readers, q \in Refreshers :
     /\ pc[r] = "done" /\ req[r].kind = "read" /\ resp[r].code = 200
     /\ pc[q] = "rb_install" /\ ref[q] # ref[r]

(* ===================== date-filtered entry points ====================== *)
\* C9: every report has a date-filtered entry point: a request carrying both
\* startDate and endDate is answered from a ledger query restricted to that
\* range, and its handler neither reads nor writes the cache; this includes
\* the budget-vs-actual report.
C9_FilteredBypassesCache ==
  \A r \in Readers :
     (req[r].kind = "read" /\ req[r].filter) =>
        /\ pc[r] # "rd_serve"
        /\ (pc[r] = "done" /\ resp[r].code = 200) => resp[r].src = {"range"}

(* =================== category spending by month ======================== *)
\* Amounts are held exactly, as integers in units of 10^-MaxPlaces, where the
\* code holds float64; a date "YYYY-MM-DD" is the tuple <<year, month, day>>
\* and an account "a:b:c" the sequence <<"a", "b", "c">> of its segments.
MaxTxs == 2
MaxPlaces == 3

RECURSIVE Pow10(_)
Pow10(n) == IF n = 0 THEN 1 ELSE 10 * Pow10(n - 1)

\* convertAmount rounding its result to two decimals
convertAmountRounded(quantity) ==
  LET exact == quantity.DecimalMantissa * Pow10(MaxPlaces - quantity.DecimalPlaces)
      unit == Pow10(MaxPlaces - 2)
      magnitude == IF exact < 0 THEN 0 - exact ELSE exact
      rounded == ((magnitude + (unit \div 2)) \div unit) * unit
  IN  IF exact < 0 THEN 0 - rounded ELSE rounded

\* convertAmount: DecimalMantissa / 10^DecimalPlaces
convertAmount(quantity) ==
  quantity.DecimalMantissa * Pow10(MaxPlaces - quantity.DecimalPlaces)

\* getYearMonth: the "YYYY-MM" prefix of a date, or the date if it is shorter
getYearMonth(dateStr) ==
  IF Len(dateStr) >= 2 THEN SubSeq(dateStr, 1, 2) ELSE dateStr

\* math.Round(amount*100) / 100, half away from zero; the result is in cents
Round2(amount) ==
  IF amount >= 0
    THEN (amount * 100 + (Pow10(MaxPlaces) \div 2)) \div Pow10(MaxPlaces)
    ELSE 0 - (((0 - amount) * 100 + (Pow10(MaxPlaces) \div 2)) \div Pow10(MaxPlaces))

\* the strings used as account segments, in byte order
SegmentOrder == <<"Essential", "Fixed", "assets", "expenses", "food", "rent", "salary">>
StringLess(a, b) ==
  \E i, j \in DOMAIN SegmentOrder : SegmentOrder[i] = a /\ SegmentOrder[j] = b /\ i < j

\* the dates ordered as their strings are: <<y, m, ...>> component by component
RECURSIVE DateLess(_, _)
DateLess(a, b) ==
  IF a = <<>> THEN b # <<>>
  ELSE IF b = <<>> THEN FALSE
  ELSE Head(a) < Head(b) \/ (Head(a) = Head(b) /\ DateLess(Tail(a), Tail(b)))

\* the less function both builders hand to sort.Slice: by month, then category
SpendingLess(x, y) ==
  IF x.Month # y.Month THEN DateLess(x.Month, y.Month)
  ELSE StringLess(x.Category, y.Category)

\* sort.Slice on rows whose (Month, Category) keys are pairwise different
RECURSIVE SortSlice(_)
SortSlice(rows) ==
  IF rows = {} THEN <<>>
  ELSE LET first == CHOOSE x \in rows : \A y \in rows \ {x} : SpendingLess(x, y)
       IN  <<first>> \o SortSlice(rows \ {first})

\* GetCategorySpending, the loop over one transaction's postings
RECURSIVE AddPostings(_, _, _)
AddPostings(monthlyCategories, month, postings) ==
  IF postings = <<>> THEN monthlyCategories
  ELSE LET posting == Head(postings)
           parts == posting.Account
           category == IF Len(parts) >= 2 THEN parts[2] ELSE parts[1]
           converted == IF Len(posting.Amount) > 0
                          THEN convertAmount(posting.Amount[1].Quantity) ELSE 0
           amount == IF converted < 0 THEN 0 - converted ELSE converted
           key == <<month, category>>
       IN  IF ~(Len(parts) >= 2 /\ parts[1] = "expenses")
             THEN AddPostings(monthlyCategories, month, Tail(postings))
             ELSE AddPostings(
                    IF key \in DOMAIN monthlyCategories
                      THEN [monthlyCategories EXCEPT ![key] = @ + amount]
                      ELSE monthlyCategories @@ (key :> amount),
                    month, Tail(postings))

\* GetCategorySpending, the loop over the transactions
RECURSIVE AddTransactions(_, _)
AddTransactions(monthlyCategories, transactions) ==
  IF transactions = <<>> THEN monthlyCategories
  ELSE AddTransactions(
         AddPostings(monthlyCategories, getYearMonth(Head(transactions).Date),
                     Head(transactions).Postings),
         Tail(transactions))

\* GetCategorySpending on the transactions GetTransactions returned
GetCategorySpending(transactions) ==
  LET monthlyCategories == AddTransactions(<<>>, transactions)
  IN  SortSlice({[Month |-> key[1], Category |-> key[2],
                  Amount |-> Round2(monthlyCategories[key])] :
                 key \in DOMAIN monthlyCategories})

\* `hledger print` restricted by buildDateArgs(startDate, endDate): the
\* transactions dated in [startDate, endDate), in journal order
GetTransactionsFiltered(transactions, startDate, endDate) ==
  SelectSeq(transactions,
            LAMBDA tx : ~DateLess(tx.Date, startDate) /\ DateLess(tx.Date, endDate))

\* AddPostingsFiltered without the step that stores expenses as positive values
RECURSIVE AddPostingsFilteredSigned(_, _, _)
AddPostingsFilteredSigned(monthlyCategories, month, postings) ==
  IF postings = <<>> THEN monthlyCategories
  ELSE LET posting == Head(postings)
           parts == posting.Account
           category == IF Len(parts) >= 2 THEN parts[2] ELSE parts[1]
           amount == IF Len(posting.Amount) > 0
                       THEN convertAmount(posting.Amount[1].Quantity) ELSE 0
           key == <<month, category>>
       IN  IF ~(Len(parts) >= 2 /\ parts[1] = "expenses")
             THEN AddPostingsFilteredSigned(monthlyCategories, month, Tail(postings))
             ELSE AddPostingsFilteredSigned(
                    IF key \in DOMAIN monthlyCategories
                      THEN [monthlyCategories EXCEPT ![key] = @ + amount]
                      ELSE monthlyCategories @@ (key :> amount),
                    month, Tail(postings))

\* GetCategorySpendingFiltered, the loop over one transaction's postings
RECURSIVE AddPostingsFiltered(_, _, _)
AddPostingsFiltered(monthlyCategories, month, postings) ==
  IF postings = <<>> THEN monthlyCategories
  ELSE LET posting == Head(postings)
           parts == posting.Account
           category == IF Len(parts) >= 2 THEN parts[2] ELSE parts[1]
           converted == IF Len(posting.Amount) > 0
                          THEN convertAmount(posting.Amount[1].Quantity) ELSE 0
           amount == IF converted < 0 THEN 0 - converted ELSE converted
           key == <<month, category>>
       IN  IF ~(Len(parts) >= 2 /\ parts[1] = "expenses")
             THEN AddPostingsFiltered(monthlyCategories, month, Tail(postings))
             ELSE AddPostingsFiltered(
                    IF key \in DOMAIN monthlyCategories
                      THEN [monthlyCategories EXCEPT ![key] = @ + amount]
                      ELSE monthlyCategories @@ (key :> amount),
                    month, Tail(postings))

\* GetCategorySpendingFiltered, the loop over the transactions
RECURSIVE AddTransactionsFiltered(_, _)
AddTransactionsFiltered(monthlyCategories, transactions) ==
  IF transactions = <<>> THEN monthlyCategories
  ELSE AddTransactionsFiltered(
         AddPostingsFiltered(monthlyCategories, getYearMonth(Head(transactions).Date),
                             Head(transactions).Postings),
         Tail(transactions))

\* GetCategorySpendingFiltered: the report built from what
\* GetTransactionsFiltered(startDate, endDate) returns
GetCategorySpendingFiltered(transactions, startDate, endDate) ==
  LET monthlyCategories ==
        AddTransactionsFiltered(<<>>, GetTransactionsFiltered(transactions, startDate, endDate))
  IN  SortSlice({[Month |-> key[1], Category |-> key[2],
                  Amount |-> Round2(monthlyCategories[key])] :
                 key \in DOMAIN monthlyCategories})

\* the journals the builders are run on
Quantity(mantissa, places) == [DecimalMantissa |-> mantissa, DecimalPlaces |-> places]
Posting(account, amounts) ==
  [Account |-> account, Amount |-> [i \in DOMAIN amounts |-> [Quantity |-> amounts[i]]]]

PostingLists ==
  { <<Posting(<<"expenses", "food">>, <<Quantity(12345, 3)>>),
      Posting(<<"assets", "bank">>, <<Quantity(-12345, 3)>>)>>,
    <<Posting(<<"expenses", "food">>, <<Quantity(-5, 3)>>)>>,
    <<Posting(<<"expenses", "rent">>, <<Quantity(7, 0), Quantity(9, 1)>>),
      Posting(<<"expenses", "food">>, <<>>)>> }

Dates == {<<2023, 12, 31>>, <<2024, 1, 15>>, <<2024, 2, 1>>}
StartDates == {<<2023, 12, 31>>, <<2024, 1, 1>>}
EndDates == {<<2024, 2, 1>>, <<2024, 2, 2>>}

Transactions == [Date : Dates, Postings : PostingLists]

RECURSIVE Journals(_)
Journals(n) ==
  IF n = 0 THEN {<<>>}
  ELSE LET shorter == Journals(n - 1)
       IN  shorter \cup {Append(j, tx) : j \in {k \in shorter : Len(k) = n - 1},
                                         tx \in Transactions}

\* hledger prints the transactions of a journal in date order
DateOrdered(j) == \A i \in 1..(Len(j) - 1) : ~DateLess(j[i + 1].Date, j[i].Date)

InitReports ==
  /\ pc = [p \in Procs |-> "idle"]
  /\ req = [p \in Procs |-> NoReq]
  /\ cacheMu = NoProc
  /\ cacheRefreshing = FALSE
  /\ svcSettings = 0
  /\ parserSettings = 0
  /\ ledger = 0
  /\ built = [p \in Procs |-> <<>>]
  /\ tiersRead = [p \in Procs |-> <<>>]
  /\ err = [p \in Procs |-> NoErr]
  /\ ref = [p \in Procs |-> NilPtr]
  /\ resp = [p \in Procs |-> NoResp]
  /\ cache = NilPtr /\ heap = <<>> /\ clock = 0
  /\ journal \in {j \in Journals(MaxTxs) : DateOrdered(j)}
  /\ dateRange = <<>>
  /\ catSpending = {} /\ catSpendingFiltered = {}
  /\ NetWorthIdle
  /\ BudgetIdle
  /\ TiersIdle
  /\ RestIdle

serviceVars == <<pc, req, cacheMu, cache, heap, cacheRefreshing, svcSettings,
                 parserSettings, ledger, clock, built, tiersRead, err, ref, resp>>

\* a call of Parser.GetCategorySpending: the hledger command fails, or the
\* report is built from all the transactions
CallGetCategorySpending ==
  /\ catSpending = {}
  /\ \/ catSpending' = {[err |-> ErrUpstream, rows |-> <<>>]}
     \/ catSpending' = {[err |-> NoErr, rows |-> GetCategorySpending(journal)]}
  /\ UNCHANGED <<serviceVars, journal, dateRange, catSpendingFiltered>>
  /\ UNCHANGED netWorthVars
  /\ UNCHANGED budgetVars
  /\ UNCHANGED tierVars
  /\ UNCHANGED restVars

\* a call of Parser.GetCategorySpendingFiltered(startDate, endDate)
CallGetCategorySpendingFiltered(startDate, endDate) ==
  /\ catSpendingFiltered = {}
  /\ dateRange' = <<startDate, endDate>>
  /\ \/ catSpendingFiltered' = {[err |-> ErrUpstream, rows |-> <<>>]}
     \/ catSpendingFiltered' =
          {[err |-> NoErr,
            rows |-> GetCategorySpendingFiltered(journal, startDate, endDate)]}
  /\ UNCHANGED <<serviceVars, journal, catSpending>>
  /\ UNCHANGED netWorthVars
  /\ UNCHANGED budgetVars
  /\ UNCHANGED tierVars
  /\ UNCHANGED restVars

NextReports ==
  \/ CallGetCategorySpending
  \/ \E startDate \in StartDates, endDate \in EndDates :
        CallGetCategorySpendingFiltered(startDate, endDate)

SpecReports == InitReports /\ [][NextReports]_vars

\* the range [startDate, endDate) holds the date of every transaction
Covers(j, range) ==
  /\ range # <<>>
  /\ \A i \in DOMAIN j : ~DateLess(j[i].Date, range[1]) /\ DateLess(j[i].Date, range[2])

\* C10: for any transaction list, the filtered category-spending builder run
\* with a date range that covers every transaction returns the same
\* (month, category, amount) rows, in the same order, as the unfiltered
\* builder run on the same transactions.
C10_FilteredEqualsUnfiltered ==
  \A all \in catSpending, filtered \in catSpendingFiltered :
     (all.err = NoErr /\ filtered.err = NoErr /\ Covers(journal, dateRange))
        => filtered.rows = all.rows

\* both builders have answered for a covered journal whose report has two
\* rows, one of them summed over a purchase and a refund
C10_Witness ==
  \E all \in catSpending, filtered \in catSpendingFiltered :
     /\ all.err = NoErr /\ filtered.err = NoErr /\ Covers(journal, dateRange)
     /\ Len(journal) = MaxTxs
     /\ Len(filtered.rows) >= 2
     /\ \E i \in DOMAIN journal :
           journal[i].Postings[1].Amount[1].Quantity.DecimalMantissa < 0

(* ======================== net worth over time ========================== *)
\* strings.HasPrefix(account, prefix + ":")
HasPrefix(account, prefix) == Len(account) >= 2 /\ account[1] = prefix

\* the amount of a posting: its first commodity amount, 0 when it has none
PostingAmount(posting) ==
  IF Len(posting.Amount) > 0 THEN convertAmount(posting.Amount[1].Quantity) ELSE 0

\* the sum of f over the keys in S
RECURSIVE SumOver(_, _)
SumOver(f, S) ==
  IF S = {} THEN 0
  ELSE LET x == CHOOSE y \in S : TRUE IN f[x] + SumOver(f, S \ {x})

\* sort.Slice(transactions, by Date): a transaction goes behind those dated
\* no later than it
RECURSIVE InsertByDate(_, _)
InsertByDate(sorted, tx) ==
  IF sorted = <<>> THEN <<tx>>
  ELSE IF DateLess(tx.Date, Head(sorted).Date) THEN <<tx>> \o sorted
  ELSE <<Head(sorted)>> \o InsertByDate(Tail(sorted), tx)

RECURSIVE SortByDate(_)
SortByDate(transactions) ==
  IF transactions = <<>> THEN <<>>
  ELSE InsertByDate(SortByDate(SubSeq(transactions, 1, Len(transactions) - 1)),
                    transactions[Len(transactions)])

\* sort.Strings(dates)
RECURSIVE SortStrings(_)
SortStrings(dates) ==
  IF dates = {} THEN <<>>
  ELSE LET first == CHOOSE d \in dates : \A e \in dates \ {d} : DateLess(d, e)
       IN  <<first>> \o SortStrings(dates \ {first})

\* GetNetWorthOverTime: accountBalances[posting.Account] += amount
RECURSIVE AddBalances(_, _)
AddBalances(accountBalances, postings) ==
  IF postings = <<>> THEN accountBalances
  ELSE LET posting == Head(postings)
           amount == PostingAmount(posting)
       IN  AddBalances(
             IF posting.Account \in DOMAIN accountBalances
               THEN [accountBalances EXCEPT ![posting.Account] = @ + amount]
               ELSE accountBalances @@ (posting.Account :> amount),
             Tail(postings))

\* the variant of NetWorthOf that adds liability balances as they are stored
NetWorthOfRawLiabilities(accountBalances) ==
  LET assets == {a \in DOMAIN accountBalances : HasPrefix(a, "assets")}
      liabilities == {a \in DOMAIN accountBalances :
                        ~HasPrefix(a, "assets") /\ HasPrefix(a, "liabilities")}
  IN  SumOver(accountBalances, assets) - SumOver(accountBalances, liabilities)

\* GetNetWorthOverTime: totalAssets - totalLiabilities over accountBalances,
\* where totalLiabilities sums -balance
NetWorthOf(accountBalances) ==
  LET assets == {a \in DOMAIN accountBalances : HasPrefix(a, "assets")}
      liabilities == {a \in DOMAIN accountBalances :
                        ~HasPrefix(a, "assets") /\ HasPrefix(a, "liabilities")}
      totalAssets == SumOver(accountBalances, assets)
      totalLiabilities == SumOver([a \in liabilities |-> 0 - accountBalances[a]], liabilities)
  IN  totalAssets - totalLiabilities

\* GetNetWorthOverTime: the loop over the sorted transactions; dailyNetWorth
\* of a date is overwritten by each transaction of that date
RECURSIVE NetWorthLoop(_, _, _)
NetWorthLoop(accountBalances, dailyNetWorth, transactions) ==
  IF transactions = <<>> THEN dailyNetWorth
  ELSE LET tx == Head(transactions)
           balances == AddBalances(accountBalances, tx.Postings)
           rounded == Round2(NetWorthOf(balances))
       IN  NetWorthLoop(balances,
                        IF tx.Date \in DOMAIN dailyNetWorth
                          THEN [dailyNetWorth EXCEPT ![tx.Date] = rounded]
                          ELSE dailyNetWorth @@ (tx.Date :> rounded),
                        Tail(transactions))

\* GetNetWorthOverTime on the transactions GetTransactions returned
GetNetWorthOverTime(transactions) ==
  LET dailyNetWorth == NetWorthLoop(<<>>, <<>>, SortByDate(transactions))
      dates == SortStrings(DOMAIN dailyNetWorth)
  IN  [i \in DOMAIN dates |-> [Date |-> dates[i], NetWorth |-> dailyNetWorth[dates[i]]]]

\* GetNetWorthOverTimeFiltered: the loop over one transaction's postings,
\* dateNetWorth[tx.Date] += amount with liabilities negated
RECURSIVE AddNetWorthPostingsFiltered(_, _, _)
AddNetWorthPostingsFiltered(dateNetWorth, date, postings) ==
  IF postings = <<>> THEN dateNetWorth
  ELSE LET posting == Head(postings)
           converted == PostingAmount(posting)
           amount == IF HasPrefix(posting.Account, "liabilities")
                       THEN 0 - converted ELSE converted
       IN  IF ~(HasPrefix(posting.Account, "assets") \/
                HasPrefix(posting.Account, "liabilities"))
             THEN AddNetWorthPostingsFiltered(dateNetWorth, date, Tail(postings))
             ELSE AddNetWorthPostingsFiltered(
                    IF date \in DOMAIN dateNetWorth
                      THEN [dateNetWorth EXCEPT ![date] = @ + amount]
                      ELSE dateNetWorth @@ (date :> amount),
                    date, Tail(postings))

\* GetNetWorthOverTimeFiltered: the loop over the transactions
RECURSIVE AddNetWorthFiltered(_, _)
AddNetWorthFiltered(dateNetWorth, transactions) ==
  IF transactions = <<>> THEN dateNetWorth
  ELSE AddNetWorthFiltered(
         AddNetWorthPostingsFiltered(dateNetWorth, Head(transactions).Date,
                                     Head(transactions).Postings),
         Tail(transactions))

\* GetNetWorthOverTimeFiltered: one point per date of dateNetWorth, sorted by date
GetNetWorthOverTimeFiltered(transactions, startDate, endDate) ==
  LET dateNetWorth ==
        AddNetWorthFiltered(<<>>, GetTransactionsFiltered(transactions, startDate, endDate))
      dates == SortStrings(DOMAIN dateNetWorth)
  IN  [i \in DOMAIN dates |->
         [Date |-> dates[i], NetWorth |-> Round2(dateNetWorth[dates[i]])]]

\* the journals the net-worth builders are run on
NetWorthPostingLists ==
  { <<Posting(<<"assets", "checking">>, <<Quantity(100, 0)>>)>>,
    <<Posting(<<"liabilities", "card">>, <<Quantity(-30, 0)>>)>>,
    <<Posting(<<"expenses", "food">>, <<Quantity(12345, 3)>>),
      Posting(<<"assets", "bank">>, <<Quantity(-12345, 3)>>)>>,
    <<Posting(<<"expenses", "food">>, <<Quantity(7, 0)>>),
      Posting(<<"liabilities", "card">>, <<>>)>> }

NetWorthTransactions == [Date : Dates, Postings : NetWorthPostingLists]

RECURSIVE NetWorthJournals(_)
NetWorthJournals(n) ==
  IF n = 0 THEN {<<>>}
  ELSE LET shorter == NetWorthJournals(n - 1)
       IN  shorter \cup {Append(j, tx) : j \in {k \in shorter : Len(k) = n - 1},
                                         tx \in NetWorthTransactions}

InitNetWorth ==
  /\ pc = [p \in Procs |-> "idle"]
  /\ req = [p \in Procs |-> NoReq]
  /\ cacheMu = NoProc
  /\ cacheRefreshing = FALSE
  /\ svcSettings = 0
  /\ parserSettings = 0
  /\ ledger = 0
  /\ built = [p \in Procs |-> <<>>]
  /\ tiersRead = [p \in Procs |-> <<>>]
  /\ err = [p \in Procs |-> NoErr]
  /\ ref = [p \in Procs |-> NilPtr]
  /\ resp = [p \in Procs |-> NoResp]
  /\ cache = NilPtr /\ heap = <<>> /\ clock = 0
  /\ journal \in {j \in NetWorthJournals(MaxTxs) : DateOrdered(j)}
  /\ dateRange = <<>>
  /\ catSpending = {} /\ catSpendingFiltered = {}
  /\ NetWorthIdle
  /\ BudgetIdle
  /\ TiersIdle
  /\ RestIdle

\* a call of Parser.GetNetWorthOverTime: the hledger command fails, or the
\* series is built from all the transactions
CallGetNetWorthOverTime ==
  /\ netWorth = {}
  /\ \/ netWorth' = {[err |-> ErrUpstream, rows |-> <<>>]}
     \/ netWorth' = {[err |-> NoErr, rows |-> GetNetWorthOverTime(journal)]}
  /\ UNCHANGED <<serviceVars, journal, dateRange, catSpending, catSpendingFiltered,
                 netWorthFiltered>>
  /\ UNCHANGED budgetVars
  /\ UNCHANGED tierVars
  /\ UNCHANGED restVars

\* a call of Parser.GetNetWorthOverTimeFiltered(startDate, endDate)
CallGetNetWorthOverTimeFiltered(startDate, endDate) ==
  /\ netWorthFiltered = {}
  /\ dateRange' = <<startDate, endDate>>
  /\ \/ netWorthFiltered' = {[err |-> ErrUpstream, rows |-> <<>>]}
     \/ netWorthFiltered' =
          {[err |-> NoErr, rows |-> GetNetWorthOverTimeFiltered(journal, startDate, endDate)]}
  /\ UNCHANGED <<serviceVars, journal, catSpending, catSpendingFiltered, netWorth>>
  /\ UNCHANGED budgetVars
  /\ UNCHANGED tierVars
  /\ UNCHANGED restVars

NextNetWorth ==
  \/ CallGetNetWorthOverTime
  \/ \E startDate \in StartDates, endDate \in EndDates :
        CallGetNetWorthOverTimeFiltered(startDate, endDate)

SpecNetWorth == InitNetWorth /\ [][NextNetWorth]_vars

\* C11: for any transaction list, the filtered net-worth builder run with a
\* bound that covers every transaction ("all time") returns the same sequence
\* of (date, netWorth) points as the unfiltered net-worth builder run on the
\* same transactions.
C11_NetWorthFilteredEqualsUnfiltered ==
  \A all \in netWorth, filtered \in netWorthFiltered :
     (all.err = NoErr /\ filtered.err = NoErr /\ Covers(journal, dateRange))
        => filtered.rows = all.rows

\* the dates of the transactions of journal j
TxDates(j) == {j[i].Date : i \in DOMAIN j}

\* the postings <<i, k>> of journal j dated on or before d to an account
\* under prefix
PostingsUpTo(j, d, prefix) ==
  {ik \in UNION {{<<i, k>> : k \in DOMAIN j[i].Postings} : i \in DOMAIN j} :
      /\ ~DateLess(d, j[ik[1]].Date)
      /\ HasPrefix(j[ik[1]].Postings[ik[2]].Account, prefix)}

\* the sum of the amounts of a set of postings <<i, k>> of journal j
AmountSum(j, S) ==
  SumOver([ik \in S |-> PostingAmount(j[ik[1]].Postings[ik[2]])], S)

\* net worth on date d: assets minus the liabilities taken as positive
ExpectedNetWorth(j, d) ==
  AmountSum(j, PostingsUpTo(j, d, "assets"))
    - (0 - AmountSum(j, PostingsUpTo(j, d, "liabilities")))

\* C12: the unfiltered net-worth series has exactly one point for each date
\* with at least one transaction, in ascending date order, and its value at
\* date d is (rounded to cents on emission) the cumulative sum of the asset
\* postings dated on or before d minus the liabilities taken as positive, the
\* negated cumulative sum of the liability postings dated on or before d.
C12_NetWorthSeries ==
  \A all \in netWorth :
     all.err = NoErr =>
        /\ {all.rows[i].Date : i \in DOMAIN all.rows} = TxDates(journal)
        /\ \A i, k \in DOMAIN all.rows : i < k => DateLess(all.rows[i].Date, all.rows[k].Date)
        /\ \A i \in DOMAIN all.rows :
              all.rows[i].NetWorth = Round2(ExpectedNetWorth(journal, all.rows[i].Date))

\* +100 to assets on one date and -30 to liabilities on a later one: the
\* series is 100 and then 70
C12_Witness ==
  \E all \in netWorth :
     /\ all.err = NoErr /\ Len(all.rows) = 2
     /\ Len(journal) = 2
     /\ journal[1].Postings[1].Account = <<"assets", "checking">>
     /\ journal[2].Postings[1].Account = <<"liabilities", "card">>
     /\ all.rows[1].NetWorth = 10000 /\ all.rows[2].NetWorth = 7000

(* ========================= budget vs. actual =========================== *)
HistoryMonths == 4

\* the quotient num / den rounded to the nearest integer, half away from
\* zero, for den > 0: math.Round of a quotient held exactly
RoundDiv(num, den) ==
  IF num >= 0 THEN (2 * num + den) \div (2 * den)
  ELSE 0 - ((2 * (0 - num) + den) \div (2 * den))

\* math.Round(x*100)/100 in cents, for x = sum/n in units of 10^-MaxPlaces
RoundMean(sum, n) == RoundDiv(sum, n * Pow10(MaxPlaces - 2))

RECURSIVE GCD(_, _)
GCD(a, b) == IF b = 0 THEN a ELSE GCD(b, a % b)

\* math.Round((amount / (sum/n)) * 100 * 100) / 100 in hundredths of a
\* percent, for sum > 0; amount and sum are reduced by their common divisor
PercentOf(amount, sum, n) ==
  LET g == GCD(amount, sum)
  IN  RoundDiv((amount \div g) * n * 100 * 100, sum \div g)

\* sum of the elements of a sequence of numbers
RECURSIVE SeqSum(_)
SeqSum(values) == IF values = <<>> THEN 0 ELSE Head(values) + SeqSum(Tail(values))

\* sort.Float64s(values)
RECURSIVE InsertFloat(_, _)
InsertFloat(sorted, v) ==
  IF sorted = <<>> THEN <<v>>
  ELSE IF v < Head(sorted) THEN <<v>> \o sorted
  ELSE <<Head(sorted)>> \o InsertFloat(Tail(sorted), v)

RECURSIVE SortFloat64s(_)
SortFloat64s(values) ==
  IF values = <<>> THEN <<>>
  ELSE InsertFloat(SortFloat64s(Tail(values)), Head(values))

\* removeOutliers with the check `q1 == q3` on the quartile values in place of
\* the check on their indices
removeOutliersByValue(values) ==
  IF Len(values) <= 2 THEN values
  ELSE LET sorted == SortFloat64s(values)
           q1 == sorted[(Len(sorted) \div 4) + 1]
           q3 == sorted[((Len(sorted) * 3) \div 4) + 1]
           iqr == q3 - q1
       IN  IF q1 = q3 THEN sorted
           ELSE SelectSeq(sorted, LAMBDA v : 2 * v >= 2 * q1 - 3 * iqr /\
                                             2 * v <= 2 * q3 + 3 * iqr)

\* removeOutliers taking q3 at the middle index, len / 2
removeOutliersMedianQ3(values) ==
  IF Len(values) <= 2 THEN values
  ELSE LET sorted == SortFloat64s(values)
           q1Index == Len(sorted) \div 4
           q3Index == Len(sorted) \div 2
           q1 == sorted[q1Index + 1]
           q3 == sorted[q3Index + 1]
           iqr == q3 - q1
       IN  IF q1Index = q3Index THEN sorted
           ELSE SelectSeq(sorted, LAMBDA v : 2 * v >= 2 * q1 - 3 * iqr /\
                                             2 * v <= 2 * q3 + 3 * iqr)

\* removeOutliers as its comment has it ("removes the highest and lowest
\* values"): the first and the last of the sorted values are dropped
removeOutliersHighestLowest(values) ==
  IF Len(values) <= 2 THEN values
  ELSE LET sorted == SortFloat64s(values)
           q1Index == Len(sorted) \div 4
           q3Index == (Len(sorted) * 3) \div 4
       IN  IF q1Index = q3Index THEN sorted
           ELSE SubSeq(sorted, 2, Len(sorted) - 1)

\* removeOutliers: values within [q1 - 1.5*iqr, q3 + 1.5*iqr], the bounds
\* compared after doubling both sides
removeOutliers(values) ==
  IF Len(values) <= 2 THEN values
  ELSE LET sorted == SortFloat64s(values)
           q1Index == Len(sorted) \div 4
           q3Index == (Len(sorted) * 3) \div 4
           q1 == sorted[q1Index + 1]
           q3 == sorted[q3Index + 1]
           iqr == q3 - q1
       IN  IF q1Index = q3Index THEN sorted
           ELSE SelectSeq(sorted, LAMBDA v : 2 * v >= 2 * q1 - 3 * iqr /\
                                             2 * v <= 2 * q3 + 3 * iqr)

\* GetMonthlySpending: month -> category -> amount of the expenses postings,
\* by the statements GetCategorySpending accumulates with
GetMonthlySpending(transactions) == AddTransactions(<<>>, transactions)

\* the months and the categories of a month -> category -> amount map
MonthsOf(monthly) == {key[1] : key \in DOMAIN monthly}
CategoriesOf(monthly) == {key[2] : key \in DOMAIN monthly}

\* categoryHistory without the `if month == currentMonth { continue }`
CategoryHistoryWithCurrent(monthly, category, now) ==
  LET months == SortStrings({m \in MonthsOf(monthly) : <<m, category>> \in DOMAIN monthly})
  IN  [i \in DOMAIN months |-> monthly[<<months[i], category>>]]

\* GetBudgetData: categoryHistory[category], the amounts of the months other
\* than currentMonth (here in month order; the code's order is the map's)
CategoryHistory(monthly, category, now) ==
  LET months == SortStrings({m \in MonthsOf(monthly) :
                               m # now /\ <<m, category>> \in DOMAIN monthly})
  IN  [i \in DOMAIN months |-> monthly[<<months[i], category>>]]

\* sort.Slice(items, by Category)
RECURSIVE SortByCategory(_)
SortByCategory(items) ==
  IF items = {} THEN <<>>
  ELSE LET first == CHOOSE x \in items :
                       \A y \in items \ {x} : StringLess(x.Category, y.Category)
       IN  <<first>> \o SortByCategory(items \ {first})

\* GetBudgetData: the BudgetItem of a category with at least 2 months of history
BudgetItem(monthly, category, now) ==
  LET filtered == removeOutliers(CategoryHistory(monthly, category, now))
      sum == SeqSum(filtered)
      n == Len(filtered)
      current == IF <<now, category>> \in DOMAIN monthly
                   THEN monthly[<<now, category>>] ELSE 0
  IN  [Category |-> category,
       Average |-> RoundMean(sum, n),
       CurrentMonth |-> Round2(current),
       Variance |-> RoundMean(current * n - sum, n),
       PercentBudget |-> IF sum > 0 THEN PercentOf(current, sum, n) ELSE 0]

\* GetBudgetData on the transactions GetTransactions returned, with
\* getCurrentYearMonth() = now
GetBudgetData(transactions, now) ==
  LET monthlySpending == GetMonthlySpending(transactions)
  IN  SortByCategory({BudgetItem(monthlySpending, category, now) :
                        category \in {c \in CategoriesOf(monthlySpending) :
                                        Len(CategoryHistory(monthlySpending, c, now)) >= 2}})

\* the journals the budget and history builders are run on: one month after
\* the other, a posting of 100 or 1000 to the category under test or none at
\* all, after two months of rent
NumMonths == HistoryMonths + 1
MonthAmounts == {0, 100, 200, 1000}
MonthDate(i) == <<2024, i, 15>>

\* the posting of the series: income arrives negative
SeriesPosting(kind, amount) ==
  IF kind = "income"
    THEN Posting(<<"income", "salary">>, <<Quantity(0 - amount, 0)>>)
    ELSE Posting(<<"expenses", "food">>, <<Quantity(amount, 0)>>)

RentTransactions ==
  << [Date |-> <<2024, 1, 5>>,
      Postings |-> <<Posting(<<"expenses", "rent">>, <<Quantity(70, 0)>>)>>],
     [Date |-> <<2024, 2, 5>>,
      Postings |-> <<Posting(<<"expenses", "rent">>, <<Quantity(30, 0)>>),
                     Posting(<<"assets", "bank">>, <<Quantity(-30, 0)>>)>>] >>

RECURSIVE SeriesTransactions(_, _, _)
SeriesTransactions(series, kind, i) ==
  IF i > Len(series) THEN <<>>
  ELSE (IF series[i] = 0 THEN <<>>
        ELSE << [Date |-> MonthDate(i),
                 Postings |-> <<SeriesPosting(kind, series[i])>>] >>)
       \o SeriesTransactions(series, kind, i + 1)

BudgetJournals ==
  {SortByDate(RentTransactions \o SeriesTransactions(series, kind, 1)) :
     series \in [1..NumMonths -> MonthAmounts], kind \in {"expenses", "income"}}

\* time.Now() falls in the last month of the journal or in the month after it
CurrentMonths == {<<2024, NumMonths>>, <<2024, NumMonths + 1>>}

InitBudget ==
  /\ pc = [p \in Procs |-> "idle"]
  /\ req = [p \in Procs |-> NoReq]
  /\ cacheMu = NoProc
  /\ cacheRefreshing = FALSE
  /\ svcSettings = 0
  /\ parserSettings = 0
  /\ ledger = 0
  /\ built = [p \in Procs |-> <<>>]
  /\ tiersRead = [p \in Procs |-> <<>>]
  /\ err = [p \in Procs |-> NoErr]
  /\ ref = [p \in Procs |-> NilPtr]
  /\ resp = [p \in Procs |-> NoResp]
  /\ cache = NilPtr /\ heap = <<>> /\ clock = 0
  /\ journal \in BudgetJournals
  /\ dateRange = <<>>
  /\ catSpending = {} /\ catSpendingFiltered = {}
  /\ NetWorthIdle
  /\ currentMonth \in CurrentMonths
  /\ budget = {} /\ historyFiltered = {}
  /\ TiersIdle
  /\ RestIdle

\* a call of Parser.GetBudgetData: the hledger command fails, or the report
\* is built from all the transactions
CallGetBudgetData ==
  /\ budget = {}
  /\ \/ budget' = {[err |-> ErrUpstream, rows |-> <<>>]}
     \/ budget' = {[err |-> NoErr, rows |-> GetBudgetData(journal, currentMonth)]}
  /\ UNCHANGED <<serviceVars, journal, dateRange, catSpending, catSpendingFiltered,
                 netWorthVars, currentMonth, historyFiltered, tierVars, restVars>>

(* =================== budget history, income history ==================== *)
\* Get{Budget,Income}HistoryFiltered: the loop over one transaction's
\* postings, keeping those under prefix ("expenses" or "income") as positive
RECURSIVE AddPostingsOf(_, _, _, _)
AddPostingsOf(prefix, monthly, month, postings) ==
  IF postings = <<>> THEN monthly
  ELSE LET posting == Head(postings)
           parts == posting.Account
           category == IF Len(parts) >= 2 THEN parts[2] ELSE parts[1]
           converted == PostingAmount(posting)
           amount == IF converted < 0 THEN 0 - converted ELSE converted
           key == <<month, category>>
       IN  IF ~HasPrefix(parts, prefix)
             THEN AddPostingsOf(prefix, monthly, month, Tail(postings))
             ELSE AddPostingsOf(prefix,
                    IF key \in DOMAIN monthly
                      THEN [monthly EXCEPT ![key] = @ + amount]
                      ELSE monthly @@ (key :> amount),
                    month, Tail(postings))

\* Get{Budget,Income}HistoryFiltered: the loop over the transactions
RECURSIVE AccumulateMonthly(_, _, _)
AccumulateMonthly(prefix, monthly, transactions) ==
  IF transactions = <<>> THEN monthly
  ELSE AccumulateMonthly(prefix,
         AddPostingsOf(prefix, monthly, getYearMonth(Head(transactions).Date),
                       Head(transactions).Postings),
         Tail(transactions))

\* HistoryItem reporting the mean of the values it kept as Average too
HistoryItemTrimmedAverage(monthly, category, allMonths, isBudget) ==
  LET months == SelectSeq(allMonths, LAMBDA m : <<m, category>> \in DOMAIN monthly)
      amounts == [i \in DOMAIN months |-> monthly[<<months[i], category>>]]
      sum == SeqSum(amounts)
      n == Len(amounts)
      filteredAmounts == SelectSeq(amounts, LAMBDA v : v * n <= 2 * sum)
  IN  [Category |-> category,
       Average |-> RoundMean(SeqSum(filteredAmounts), Len(filteredAmounts)),
       AverageExcludingExtremes |->
           RoundMean(SeqSum(filteredAmounts), Len(filteredAmounts)),
       Months |-> [i \in DOMAIN allMonths |->
                     [Month |-> allMonths[i], Year |-> allMonths[i][1],
                      Amount |-> 0, PercentOfBudget |-> 0, OverBudget |-> FALSE]]]

\* the BudgetHistoryItem of a category: avg over all its monthly amounts, the
\* average of those with v <= avg*2, and one MonthBudget per month of allMonths
HistoryItem(monthly, category, allMonths, isBudget) ==
  LET months == SelectSeq(allMonths, LAMBDA m : <<m, category>> \in DOMAIN monthly)
      amounts == [i \in DOMAIN months |-> monthly[<<months[i], category>>]]
      sum == SeqSum(amounts)
      n == Len(amounts)
      filteredAmounts == SelectSeq(amounts, LAMBDA v : v * n <= 2 * sum)
      AmountIn(month) == IF <<month, category>> \in DOMAIN monthly
                           THEN monthly[<<month, category>>] ELSE 0
  IN  [Category |-> category,
       Average |-> RoundMean(sum, n),
       AverageExcludingExtremes |->
           IF Len(filteredAmounts) > 0
             THEN RoundMean(SeqSum(filteredAmounts), Len(filteredAmounts))
             ELSE RoundMean(sum, n),
       Months |-> [i \in DOMAIN allMonths |->
                     [Month |-> allMonths[i],
                      Year |-> allMonths[i][1],
                      Amount |-> Round2(AmountIn(allMonths[i])),
                      PercentOfBudget |->
                          IF sum > 0 THEN PercentOf(AmountIn(allMonths[i]), sum, n) ELSE 0,
                      OverBudget |-> isBudget /\ AmountIn(allMonths[i]) * n > sum]]]

\* GetBudgetHistoryFiltered(startDate, endDate)
GetBudgetHistoryFiltered(transactions, startDate, endDate) ==
  LET monthlySpending ==
        AccumulateMonthly("expenses", <<>>,
                          GetTransactionsFiltered(transactions, startDate, endDate))
      allMonths == SortStrings(MonthsOf(monthlySpending))
  IN  SortByCategory({HistoryItem(monthlySpending, category, allMonths, TRUE) :
                        category \in CategoriesOf(monthlySpending)})

\* GetIncomeHistoryFiltered(startDate, endDate)
GetIncomeHistoryFiltered(transactions, startDate, endDate) ==
  LET monthlyIncome ==
        AccumulateMonthly("income", <<>>,
                          GetTransactionsFiltered(transactions, startDate, endDate))
      allMonths == SortStrings(MonthsOf(monthlyIncome))
  IN  SortByCategory({HistoryItem(monthlyIncome, category, allMonths, FALSE) :
                        category \in CategoriesOf(monthlyIncome)})

BudgetStartDates == {<<2024, 1, 1>>, <<2024, 2, 1>>}
BudgetEndDates == {<<2025, 1, 1>>}

\* a call of Parser.GetBudgetHistoryFiltered or Parser.GetIncomeHistoryFiltered
CallHistoryFiltered(builder, startDate, endDate) ==
  /\ historyFiltered = {}
  /\ dateRange' = <<startDate, endDate>>
  /\ \/ historyFiltered' = {[builder |-> builder, err |-> ErrUpstream, rows |-> <<>>]}
     \/ historyFiltered' =
          {[builder |-> builder, err |-> NoErr,
            rows |-> IF builder = "budget"
                       THEN GetBudgetHistoryFiltered(journal, startDate, endDate)
                       ELSE GetIncomeHistoryFiltered(journal, startDate, endDate)]}
  /\ UNCHANGED <<serviceVars, journal, catSpending, catSpendingFiltered,
                 netWorthVars, currentMonth, budget, tierVars, restVars>>

NextBudget ==
  \/ CallGetBudgetData
  \/ \E builder \in {"budget", "income"},
        startDate \in BudgetStartDates, endDate \in BudgetEndDates :
        CallHistoryFiltered(builder, startDate, endDate)

SpecBudget == InitBudget /\ [][NextBudget]_vars

(* --------------- what the budget and history reports must show --------- *)
\* the postings <<i, k>> of journal j to prefix:category dated in month
MonthPostings(j, prefix, category, month) ==
  {ik \in UNION {{<<i, k>> : k \in DOMAIN j[i].Postings} : i \in DOMAIN j} :
      /\ <<j[ik[1]].Date[1], j[ik[1]].Date[2]>> = month
      /\ HasPrefix(j[ik[1]].Postings[ik[2]].Account, prefix)
      /\ j[ik[1]].Postings[ik[2]].Account[2] = category}

\* the categories journal j has postings for under prefix
AllCategories(j, prefix) ==
  {j[i].Postings[k].Account[2] :
     <<i, k>> \in {ik \in UNION {{<<i, k>> : k \in DOMAIN j[i].Postings} : i \in DOMAIN j} :
                     HasPrefix(j[ik[1]].Postings[ik[2]].Account, prefix)}}

\* the months in which journal j has a posting to prefix:category
SpendingMonths(j, prefix, category) ==
  {m \in {<<j[i].Date[1], j[i].Date[2]>> : i \in DOMAIN j} :
      MonthPostings(j, prefix, category, m) # {}}

\* the magnitude posted to prefix:category in month
MonthTotal(j, prefix, category, month) ==
  LET S == MonthPostings(j, prefix, category, month)
      Magnitude(x) == IF x < 0 THEN 0 - x ELSE x
  IN  SumOver([ik \in S |-> Magnitude(PostingAmount(j[ik[1]].Postings[ik[2]]))], S)

\* the monthly totals of prefix:category over the given months, in month order
MonthlyValues(j, prefix, category, months) ==
  LET ordered == SortStrings(months)
  IN  [i \in DOMAIN ordered |-> MonthTotal(j, prefix, category, ordered[i])]

\* the historical amounts of an expense category: its months but the current
HistoricalValues(category) ==
  MonthlyValues(journal, "expenses", category,
                SpendingMonths(journal, "expenses", category) \ {currentMonth})

\* C13: the budget-vs-actual report contains a category if and only if the
\* category has spending in at least 2 distinct months other than the current
\* calendar month, whatever it spent in the current month.
C13_TwoHistoricalMonths ==
  \A b \in budget :
     b.err = NoErr =>
        {b.rows[i].Category : i \in DOMAIN b.rows}
          = {c \in AllCategories(journal, "expenses") :
               Cardinality(SpendingMonths(journal, "expenses", c) \ {currentMonth}) >= 2}

\* food was bought in the current month and in one month before it: the
\* report has rent and not food
C13_Witness ==
  \E b \in budget :
     /\ b.err = NoErr
     /\ currentMonth \in SpendingMonths(journal, "expenses", "food")
     /\ Cardinality(SpendingMonths(journal, "expenses", "food") \ {currentMonth}) = 1
     /\ {b.rows[i].Category : i \in DOMAIN b.rows} = {"rent"}

\* Q1 and Q3 of ascending amounts: the elements at zero-based indices
\* floor(n/4) and floor(3n/4)
Q1(sorted) == sorted[(Len(sorted) \div 4) + 1]
Q3(sorted) == sorted[((3 * Len(sorted)) \div 4) + 1]

\* the amounts v with Q1 - 1.5*IQR <= v <= Q3 + 1.5*IQR
WithinIQR(sorted) ==
  SelectSeq(sorted, LAMBDA v :
     /\ 2 * v >= 2 * Q1(sorted) - 3 * (Q3(sorted) - Q1(sorted))
     /\ 2 * v <= 2 * Q3(sorted) + 3 * (Q3(sorted) - Q1(sorted)))

\* C14: Policy A: for n > 2 historical amounts the kept values are exactly
\* those v with Q1 - 1.5 IQR <= v <= Q3 + 1.5 IQR, Q1 and Q3 being the elements
\* at zero-based indices floor(n/4) and floor(3n/4) of the ascending amounts,
\* and the budget average is the mean of the kept values.
C14_IQRTrim ==
  \A b \in budget :
     b.err = NoErr =>
        \A i \in DOMAIN b.rows :
           LET values == HistoricalValues(b.rows[i].Category)
               kept == WithinIQR(SortFloat64s(values))
           IN  Len(values) > 2 =>
                 /\ removeOutliers(values) = kept
                 /\ b.rows[i].Average = RoundMean(SeqSum(kept), Len(kept))

\* the history 100, 100, 100, 100, 1000: the 1000 is left out and the
\* average is 100
C14_Witness ==
  \E b \in budget :
     /\ b.err = NoErr
     /\ \E i \in DOMAIN b.rows :
           /\ b.rows[i].Category = "food"
           /\ Len(HistoricalValues("food")) = 5
           /\ SeqSum(HistoricalValues("food")) = 1400 * Pow10(MaxPlaces)
           /\ b.rows[i].Average = 10000

\* C15 as claimed: Policy A trims nothing when n <= 2 or Q1 == Q3: the kept
\* multiset is the input multiset.
C15_NoTrimWhenQuartilesEqual ==
  \A b \in budget :
     b.err = NoErr =>
        \A c \in AllCategories(journal, "expenses") :
           LET values == HistoricalValues(c)
               sorted == SortFloat64s(values)
           IN  (Len(values) <= 2 \/ (Len(values) > 2 /\ Q1(sorted) = Q3(sorted)))
                  => SortFloat64s(removeOutliers(values)) = sorted

\* C15 amended: Policy A trims nothing when n <= 2 (the input is returned as
\* it is); for n > 2 with Q1 == Q3 the IQR is 0 and exactly the values equal
\* to Q1 are kept, at least one, every other value being trimmed.
C15_NoTrimUpToTwo ==
  \A b \in budget :
     b.err = NoErr =>
        \A c \in AllCategories(journal, "expenses") :
           LET values == HistoricalValues(c)
               sorted == SortFloat64s(values)
               kept == removeOutliers(values)
           IN  /\ Len(values) <= 2 => kept = values
               /\ (Len(values) > 2 /\ Q1(sorted) = Q3(sorted)) =>
                     /\ kept = SelectSeq(sorted, LAMBDA v : v = Q1(sorted))
                     /\ Len(kept) >= 1

\* a category with the two historical amounts 100 and 1000 is budgeted at
\* their mean, and another with equal quartiles lost a value
C15_Witness ==
  \E b \in budget :
     /\ b.err = NoErr
     /\ \E i \in DOMAIN b.rows :
           /\ b.rows[i].Category = "food"
           /\ Len(HistoricalValues("food")) = 2
           /\ SeqSum(HistoricalValues("food")) = 1100 * Pow10(MaxPlaces)
           /\ b.rows[i].Average = 55000

\* the transactions of the journal dated in the requested range
RequestedTransactions == GetTransactionsFiltered(journal, dateRange[1], dateRange[2])

\* "expenses" for the budget-history builder, "income" for the income-history one
PrefixOf(builder) == IF builder = "budget" THEN "expenses" ELSE "income"

\* the mean of values in cents, and the values not greater than twice their mean
MeanOf(values) == RoundMean(SeqSum(values), Len(values))
NotExtreme(values) ==
  SelectSeq(values, LAMBDA v : v * Len(values) <= 2 * SeqSum(values))

\* C16: Policy B, in the budget-history and income-history builders: average
\* is the mean of all the history values of the category;
\* averageExcludingExtremes is the mean of the values not greater than twice
\* that average, the threshold being computed once from the full mean, and it
\* equals average when nothing is discarded.
C16_TwiceTheMean ==
  \A h \in historyFiltered :
     h.err = NoErr =>
        /\ {h.rows[i].Category : i \in DOMAIN h.rows}
             = AllCategories(RequestedTransactions, PrefixOf(h.builder))
        /\ \A i \in DOMAIN h.rows :
              LET category == h.rows[i].Category
                  values == MonthlyValues(RequestedTransactions, PrefixOf(h.builder), category,
                              SpendingMonths(RequestedTransactions, PrefixOf(h.builder), category))
                  kept == NotExtreme(values)
              IN  /\ h.rows[i].Average = MeanOf(values)
                  /\ kept # <<>> => h.rows[i].AverageExcludingExtremes = MeanOf(kept)
                  /\ kept = values => h.rows[i].AverageExcludingExtremes = h.rows[i].Average

\* the history 100, 100, 100, 100, 1000: average 280 and, the 1000 being
\* above 560, averageExcludingExtremes 100
C16_Witness ==
  \E h \in historyFiltered :
     /\ h.err = NoErr
     /\ \E i \in DOMAIN h.rows :
           /\ Len(h.rows[i].Months) >= 5
           /\ h.rows[i].Average = 28000
           /\ h.rows[i].AverageExcludingExtremes = 10000

\* C17: every builder that computes a historical average leaves the current
\* calendar month out of the values that feed average and
\* averageExcludingExtremes, while the current month still appears in the
\* per-month series: here for the budget-history and income-history builders.
C17_CurrentMonthExcluded ==
  \A h \in historyFiltered :
     h.err = NoErr =>
        \A i \in DOMAIN h.rows :
           LET category == h.rows[i].Category
               months == SpendingMonths(RequestedTransactions, PrefixOf(h.builder), category)
               values == MonthlyValues(RequestedTransactions, PrefixOf(h.builder), category,
                                       months \ {currentMonth})
           IN  /\ values # <<>> => h.rows[i].Average = MeanOf(values)
               /\ currentMonth \in months =>
                     \E k \in DOMAIN h.rows[i].Months :
                        h.rows[i].Months[k].Month = currentMonth

(* ======================= tiers: lookup, rollup, detail ================== *)
\* Settings.GetTierForCategory scanning the tiers from the last to the first
GetTierForCategoryLast(Tiers, category) ==
  LET listing == {i \in DOMAIN Tiers :
                    \E k \in DOMAIN Tiers[i].Categories : Tiers[i].Categories[k] = category}
  IN  IF listing = {} THEN NilPtr
      ELSE CHOOSE i \in listing : \A j \in listing : j <= i

\* Settings.GetTierForCategory, the loop `for i := range s.Tiers` from index i
\* on: the index of the tier returned (&s.Tiers[i]), NilPtr for nil
RECURSIVE TierScan(_, _, _)
TierScan(Tiers, i, category) ==
  IF i > Len(Tiers) THEN NilPtr
  ELSE IF \E k \in DOMAIN Tiers[i].Categories : Tiers[i].Categories[k] = category
         THEN i
         ELSE TierScan(Tiers, i + 1, category)

GetTierForCategory(Tiers, category) == TierScan(Tiers, 1, category)

\* GetCategoryTrends, the loop over categorySpending: tiers[tierName] holds
\* one amount per month, kept here under the key <<tierName, month>>
RECURSIVE RollUp(_, _, _)
RollUp(Tiers, rollup, categorySpending) ==
  IF categorySpending = <<>> THEN rollup
  ELSE LET spending == Head(categorySpending)
           tier == GetTierForCategory(Tiers, spending.Category)
           tierName == IF tier # NilPtr THEN Tiers[tier].Name ELSE spending.Category
           key == <<tierName, spending.Month>>
       IN  RollUp(Tiers,
                  IF key \in DOMAIN rollup
                    THEN [rollup EXCEPT ![key] = @ + spending.Amount]
                    ELSE rollup @@ (key :> spending.Amount),
                  Tail(categorySpending))

\* GetCategoryTrends: one row per tier name, its data sorted by month, the
\* rows sorted by tier name
GetCategoryTrends(transactions, Tiers) ==
  LET rollup == RollUp(Tiers, <<>>, GetCategorySpending(transactions))
      Data(tierName) ==
        LET months == SortStrings({key[2] : key \in {k \in DOMAIN rollup : k[1] = tierName}})
        IN  [i \in DOMAIN months |->
               [Month |-> months[i], Amount |-> rollup[<<tierName, months[i]>>]]]
  IN  SortByCategory({[Category |-> tierName, Data |-> Data(tierName)] :
                      tierName \in {key[1] : key \in DOMAIN rollup}})

\* GetCategoryTrendsFiltered: the rows of GetCategorySpendingFiltered grouped
\* by item.Category as it stands, each group sorted by month, the groups
\* sorted by category
GetCategoryTrendsFiltered(transactions, startDate, endDate) ==
  LET spending == GetCategorySpendingFiltered(transactions, startDate, endDate)
      categoryData(category) ==
        LET months == SortStrings({spending[k].Month :
                                     k \in {x \in DOMAIN spending :
                                              spending[x].Category = category}})
        IN  [i \in DOMAIN months |->
               [Month |-> months[i],
                Amount |-> spending[CHOOSE k \in DOMAIN spending :
                                      /\ spending[k].Category = category
                                      /\ spending[k].Month = months[i]].Amount]]
  IN  SortByCategory({[Category |-> category, Data |-> categoryData(category)] :
                      category \in {spending[k].Category : k \in DOMAIN spending}})

\* the postings <<i, k>> of the transactions under prefix:category
PostingsOf(transactions, prefix, category) ==
  {ik \in UNION {{<<i, k>> : k \in DOMAIN transactions[i].Postings} :
                 i \in DOMAIN transactions} :
      /\ HasPrefix(transactions[ik[1]].Postings[ik[2]].Account, prefix)
      /\ transactions[ik[1]].Postings[ik[2]].Account[2] = category}

\* the detail builders' `if amount < 0 { amount = -amount }`, summed
TotalOf(transactions, postings) ==
  SumOver([ik \in postings |->
             LET amount == PostingAmount(transactions[ik[1]].Postings[ik[2]])
             IN  IF amount < 0 THEN 0 - amount ELSE amount],
          postings)

\* GetCategoryDetailFiltered and GetIncomeDetailFiltered on the transactions
\* of the range: the transactions with a posting under prefix:category.
\* (Breakdown is keyed by extractSubcategory and BudgetHistory comes from
\* GetBudgetHistory, both defined outside these sources: the total stands for
\* the breakdown.)
GetCategoryDetailFiltered(transactions, prefix, category) ==
  [Category |-> category,
   Transactions |-> SelectSeq(transactions, LAMBDA tx :
                       \E k \in DOMAIN tx.Postings :
                          /\ HasPrefix(tx.Postings[k].Account, prefix)
                          /\ tx.Postings[k].Account[2] = category),
   Total |-> TotalOf(transactions, PostingsOf(transactions, prefix, category))]

\* the nil *TierDetailData
NilDetail == [nil |-> TRUE]

\* GetTierDetailFiltered: NilDetail (nil, nil) when no configured tier has the
\* name; else the transactions with an expense posting whose category the tier
\* lists and the total per category, added once per listing of the category
\* (Breakdown holds the entries of categoryTotals; BreakdownOrders has the
\* orders the sort can leave them in)
GetTierDetailFiltered(Tiers, transactions, tier) ==
  LET named == {i \in DOMAIN Tiers : Tiers[i].Name = tier}
      tierConfig == IF named = {} THEN NilPtr
                    ELSE CHOOSE i \in named : \A j \in named : i <= j
      Listings(category) ==
        Cardinality({k \in DOMAIN Tiers[tierConfig].Categories :
                       Tiers[tierConfig].Categories[k] = category})
      Listed(posting) == HasPrefix(posting.Account, "expenses") /\
                         Listings(posting.Account[2]) > 0
      categories == {tx.Postings[k].Account[2] :
                       <<tx, k>> \in {xk \in UNION {{<<transactions[i], k>> :
                                                       k \in DOMAIN transactions[i].Postings} :
                                                    i \in DOMAIN transactions} :
                                        Listed(xk[1].Postings[xk[2]])}}
  IN  IF tierConfig = NilPtr THEN NilDetail
      ELSE [Tier |-> tier,
            Transactions |-> SelectSeq(transactions, LAMBDA tx :
                                \E k \in DOMAIN tx.Postings : Listed(tx.Postings[k])),
            Breakdown |-> {[Name |-> c,
                            Amount |-> Listings(c) *
                               TotalOf(transactions, PostingsOf(transactions, "expenses", c))] :
                           c \in categories}]

\* GetAccountDetailFiltered, the loop over the transactions: the running
\* balance of the account after each of its transactions, by date
RECURSIVE BalanceMap(_, _, _, _)
BalanceMap(transactions, account, runningBalance, balanceMap) ==
  IF transactions = <<>> THEN balanceMap
  ELSE LET tx == Head(transactions)
           mine == {k \in DOMAIN tx.Postings : tx.Postings[k].Account = account}
           txAmount == SumOver([k \in mine |-> PostingAmount(tx.Postings[k])], mine)
       IN  IF mine = {}
             THEN BalanceMap(Tail(transactions), account, runningBalance, balanceMap)
             ELSE BalanceMap(Tail(transactions), account, runningBalance + txAmount,
                             IF tx.Date \in DOMAIN balanceMap
                               THEN [balanceMap EXCEPT ![tx.Date] = runningBalance + txAmount]
                               ELSE balanceMap @@ (tx.Date :> (runningBalance + txAmount)))

GetAccountDetailFiltered(transactions, account) ==
  LET balanceMap == BalanceMap(transactions, account, 0, <<>>)
      dates == SortStrings(DOMAIN balanceMap)
  IN  [Account |-> account,
       Transactions |-> SelectSeq(transactions, LAMBDA tx :
                           \E k \in DOMAIN tx.Postings : tx.Postings[k].Account = account),
       BalanceHistory |-> [i \in DOMAIN dates |->
                             [Date |-> dates[i], Balance |-> balanceMap[dates[i]]]]]

\* the four detail handlers on a request that carries a date filter: 400 for
\* an empty name, 500 when the builder fails, 404 when the tier builder
\* returns nil, 200 with the builder's result otherwise
DetailKinds == {"tier", "category", "account", "income"}
EmptyName(kind) == IF kind = "account" THEN <<>> ELSE ""

DetailOf(kind, name, startDate, endDate) ==
  LET transactions == GetTransactionsFiltered(journal, startDate, endDate)
  IN  CASE kind = "tier" -> GetTierDetailFiltered(settingsTiers, transactions, name)
        [] kind = "category" -> GetCategoryDetailFiltered(transactions, "expenses", name)
        [] kind = "income" -> GetCategoryDetailFiltered(transactions, "income", name)
        [] kind = "account" -> GetAccountDetailFiltered(transactions, name)

HandleDetail(kind, name, startDate, endDate) ==
  /\ detail = {}
  /\ dateRange' = <<startDate, endDate>>
  /\ IF name = EmptyName(kind)
       THEN detail' = {[kind |-> kind, name |-> name, status |-> 400,
                        body |-> [error |-> kind \o " parameter required"]]}
       ELSE LET found == DetailOf(kind, name, startDate, endDate)
            IN  \/ /\ ~(kind = "tier" /\ found = NilDetail)
                   /\ detail' = {[kind |-> kind, name |-> name, status |-> 500,
                                  body |-> [error |-> ErrUpstream]]}
                \/ /\ kind = "tier" /\ found = NilDetail
                   /\ detail' = {[kind |-> kind, name |-> name, status |-> 404,
                                  body |-> [error |-> "tier not found"]]}
                \/ /\ ~(kind = "tier" /\ found = NilDetail)
                   /\ detail' = {[kind |-> kind, name |-> name, status |-> 200,
                                  body |-> found]}
  /\ UNCHANGED <<serviceVars, journal, catSpending, catSpendingFiltered,
                 netWorthVars, budgetVars, settingsTiers, trends, restVars>>

\* a call of Parser.GetCategoryTrends
CallGetCategoryTrends ==
  /\ trends = {}
  /\ \/ trends' = {[err |-> ErrUpstream, rows |-> <<>>]}
     \/ trends' = {[err |-> NoErr, rows |-> GetCategoryTrends(journal, settingsTiers)]}
  /\ UNCHANGED <<serviceVars, journal, dateRange, catSpending, catSpendingFiltered,
                 netWorthVars, budgetVars, settingsTiers, detail, restVars>>

\* a call of Parser.GetCategoryTrendsFiltered(startDate, endDate)
CallGetCategoryTrendsFiltered(startDate, endDate) ==
  /\ trendsFiltered = {}
  /\ \/ trendsFiltered' = {[err |-> ErrUpstream, startDate |-> startDate,
                            endDate |-> endDate, rows |-> <<>>]}
     \/ trendsFiltered' = {[err |-> NoErr, startDate |-> startDate, endDate |-> endDate,
                            rows |-> GetCategoryTrendsFiltered(journal, startDate, endDate)]}
  /\ UNCHANGED <<serviceVars, journal, dateRange, catSpending, catSpendingFiltered,
                 netWorthVars, budgetVars, tierVars, accountVars, settingsErr, runs>>

Tier(name, categories) == [Name |-> name, Categories |-> categories, Color |-> "#27ae60"]

\* the tiers of settings.json: none; one; a category listed by two tiers, in
\* both orders; a tier without categories; a tier named as a category is
TierConfigs ==
  { <<>>,
    <<Tier("Essential", <<"food", "rent">>)>>,
    <<Tier("Essential", <<"rent">>), Tier("Fixed", <<"rent", "rent">>)>>,
    <<Tier("Fixed", <<"food", "rent">>), Tier("Essential", <<"rent">>)>>,
    <<Tier("Essential", <<>>), Tier("Fixed", <<"food">>)>>,
    <<Tier("rent", <<"food">>)>> }

TierLedger ==
  << [Date |-> <<2023, 12, 31>>,
      Postings |-> <<Posting(<<"expenses", "food">>, <<Quantity(12345, 3)>>),
                     Posting(<<"assets", "bank">>, <<Quantity(-12345, 3)>>)>>],
     [Date |-> <<2024, 1, 15>>,
      Postings |-> <<Posting(<<"expenses", "rent">>, <<Quantity(7, 0)>>),
                     Posting(<<"expenses", "food">>, <<Quantity(7, 0)>>)>>],
     [Date |-> <<2024, 1, 15>>,
      Postings |-> <<Posting(<<"income", "salary">>, <<Quantity(-100, 0)>>),
                     Posting(<<"assets", "bank">>, <<Quantity(100, 0)>>)>>],
     [Date |-> <<2024, 2, 1>>,
      Postings |-> <<Posting(<<"expenses", "food">>, <<Quantity(-5, 3)>>)>>] >>

\* the transactions of ledger that keep marks, in their order
RECURSIVE Marked(_, _, _)
Marked(ledgerTxs, keep, i) ==
  IF i > Len(ledgerTxs) THEN <<>>
  ELSE (IF keep[i] THEN <<ledgerTxs[i]>> ELSE <<>>) \o Marked(ledgerTxs, keep, i + 1)

TierJournals == {Marked(TierLedger, keep, 1) : keep \in [DOMAIN TierLedger -> BOOLEAN]}

\* the names a detail request asks for: empty, in use, and not in use
DetailNames(kind) ==
  CASE kind = "tier" -> {"", "Essential", "Luxury"}
    [] kind = "category" -> {"", "food", "travel"}
    [] kind = "income" -> {"", "salary", "bonus"}
    [] kind = "account" -> {<<>>, <<"assets", "bank">>, <<"assets", "cash">>}

InitTiers ==
  /\ pc = [p \in Procs |-> "idle"]
  /\ req = [p \in Procs |-> NoReq]
  /\ cacheMu = NoProc
  /\ cacheRefreshing = FALSE
  /\ svcSettings = 0
  /\ parserSettings = 0
  /\ ledger = 0
  /\ built = [p \in Procs |-> <<>>]
  /\ tiersRead = [p \in Procs |-> <<>>]
  /\ err = [p \in Procs |-> NoErr]
  /\ ref = [p \in Procs |-> NilPtr]
  /\ resp = [p \in Procs |-> NoResp]
  /\ cache = NilPtr /\ heap = <<>> /\ clock = 0
  /\ journal \in TierJournals
  /\ dateRange = <<>>
  /\ catSpending = {} /\ catSpendingFiltered = {}
  /\ NetWorthIdle
  /\ BudgetIdle
  /\ settingsTiers \in TierConfigs
  /\ trends = {} /\ detail = {}
  /\ RestIdle

NextTiers ==
  \/ CallGetCategoryTrends
  \/ \E startDate \in StartDates, endDate \in EndDates :
        CallGetCategoryTrendsFiltered(startDate, endDate)
  \/ \E kind \in DetailKinds, startDate \in StartDates, endDate \in EndDates :
        \E name \in DetailNames(kind) : HandleDetail(kind, name, startDate, endDate)

SpecTiers == InitTiers /\ [][NextTiers]_vars

\* the tiers of the configuration that list category
TiersListing(category) ==
  {i \in DOMAIN settingsTiers :
     \E k \in DOMAIN settingsTiers[i].Categories : settingsTiers[i].Categories[k] = category}

\* the name category is reported under: its earliest tier's, or its own
ReportedUnder(category) ==
  IF TiersListing(category) = {} THEN category
  ELSE settingsTiers[CHOOSE i \in TiersListing(category) :
                       \A j \in TiersListing(category) : i <= j].Name

\* C18: tier lookup is first-match in configuration order: GetTierForCategory
\* returns the first configured tier whose category list contains the
\* category, so a category listed in two tiers goes to the earlier one, and
\* none for an unlisted category, which the category-trends rollup then reports
\* under the category's own name.
C18_FirstMatch ==
  /\ \A category \in {"food", "rent", "salary", "travel"} :
        LET tier == GetTierForCategory(settingsTiers, category)
        IN  /\ TiersListing(category) = {} <=> tier = NilPtr
            /\ tier # NilPtr =>
                  /\ tier \in TiersListing(category)
                  /\ \A j \in TiersListing(category) : tier <= j
  /\ \A t \in trends :
        t.err = NoErr =>
           LET spending == GetCategorySpending(journal)
           IN  /\ {t.rows[i].Category : i \in DOMAIN t.rows}
                    = {ReportedUnder(spending[k].Category) : k \in DOMAIN spending}
               /\ \A i \in DOMAIN t.rows : \A d \in DOMAIN t.rows[i].Data :
                     LET under == {k \in DOMAIN spending :
                                     /\ ReportedUnder(spending[k].Category) = t.rows[i].Category
                                     /\ spending[k].Month = t.rows[i].Data[d].Month}
                     IN  /\ under # {}
                         /\ t.rows[i].Data[d].Amount
                              = SumOver([k \in under |-> spending[k].Amount], under)

\* rent is listed by Essential and then by Fixed, food by no tier: the rollup
\* has the rows Essential and food, and no row Fixed
C18_Witness ==
  \E t \in trends :
     /\ t.err = NoErr
     /\ Len(settingsTiers) = 2
     /\ TiersListing("rent") = {1, 2}
     /\ TiersListing("food") = {}
     /\ {t.rows[i].Category : i \in DOMAIN t.rows}
          = {settingsTiers[1].Name, "food"}

\* the requested name matches nothing: no tier is configured under it, or
\* the journal has no posting to the category, income or account
MatchesNothing(kind, name) ==
  CASE kind = "tier" -> \A i \in DOMAIN settingsTiers : settingsTiers[i].Name # name
    [] kind = "category" -> PostingsOf(journal, "expenses", name) = {}
    [] kind = "income" -> PostingsOf(journal, "income", name) = {}
    [] kind = "account" ->
         \A i \in DOMAIN journal : \A k \in DOMAIN journal[i].Postings :
            journal[i].Postings[k].Account # name

\* C19: each detail request (tier, category, account, income) whose requested
\* name matches nothing yields an explicit not-found outcome, distinguishable
\* from a successful result with no transactions; an unconfigured tier name
\* yields the handler's "tier not found".
C19_NotFoundIsExplicit ==
  \A d \in detail :
     (d.name # EmptyName(d.kind) /\ d.status # 500 /\ MatchesNothing(d.kind, d.name))
        => d.status = 404

\* the raw signed amounts posted to prefix:category in month, summed
SignedMonthTotal(j, prefix, category, month) ==
  LET S == MonthPostings(j, prefix, category, month)
  IN  SumOver([ik \in S |-> PostingAmount(j[ik[1]].Postings[ik[2]])], S)

\* C20: sign convention: every report that shows expense amounts sums the
\* raw signed posting amounts, so that a negative expense posting (a refund)
\* reduces the total, and no report uses the absolute value of a posting
\* instead: here for the category-spending report.
C20_ExpensesSumSigned ==
  \A r \in catSpending :
     r.err = NoErr =>
        \A i \in DOMAIN r.rows :
           r.rows[i].Amount
             = Round2(SignedMonthTotal(journal, "expenses", r.rows[i].Category, r.rows[i].Month))

(* ============================ accounts listing ========================= *)
\* the balance of an entry: mantissa / 10^places of its first amount, 0 when
\* the entry has no amount
EntryBalance(entry) ==
  IF Len(entry.Amounts) > 0 THEN convertAmount(entry.Amounts[1]) ELSE 0

\* GetAccounts, the loop over balanceData[0]: entries without a name are
\* skipped, and so are those outside assets: and liabilities:
RECURSIVE GetAccounts(_)
GetAccounts(accountsList) ==
  IF accountsList = <<>> THEN <<>>
  ELSE LET item == Head(accountsList)
           name == item.Name
       IN  IF name = <<>> THEN GetAccounts(Tail(accountsList))
           ELSE IF ~HasPrefix(name, "assets") /\ ~HasPrefix(name, "liabilities")
                  THEN GetAccounts(Tail(accountsList))
           ELSE <<[Name |-> name, Balance |-> EntryBalance(item), Currency |-> "$"]>>
                \o GetAccounts(Tail(accountsList))

\* GetAccountsFiltered, the loop over balanceData[0] of the balance command
\* run with the date arguments: entries without a name are skipped; an entry
\* without amounts is listed with balance 0 and no currency, any other with
\* the commodity of its first amount
RECURSIVE GetAccountsFiltered(_)
GetAccountsFiltered(accountsList) ==
  IF accountsList = <<>> THEN <<>>
  ELSE LET item == Head(accountsList)
           name == item.Name
       IN  IF name = <<>> THEN GetAccountsFiltered(Tail(accountsList))
           ELSE <<[Name |-> name, Balance |-> EntryBalance(item),
                   Currency |-> IF Len(item.Amounts) > 0 THEN "$" ELSE ""]>>
                \o GetAccountsFiltered(Tail(accountsList))

\* the entries of a balance report: [name, ..., ..., amounts]
BalanceEntries ==
  [Name : {<<>>, <<"assets", "bank">>, <<"liabilities", "card">>, <<"expenses", "food">>},
   Amounts : {<<>>, <<Quantity(12345, 3)>>}]

BalanceOutputs ==
  {<<>>} \cup {<<x>> : x \in BalanceEntries}
         \cup {<<x, y>> : x \in BalanceEntries, y \in BalanceEntries}

InitAccounts ==
  /\ pc = [p \in Procs |-> "idle"]
  /\ req = [p \in Procs |-> NoReq]
  /\ cacheMu = NoProc
  /\ cacheRefreshing = FALSE
  /\ svcSettings = 0
  /\ parserSettings = 0
  /\ ledger = 0
  /\ built = [p \in Procs |-> <<>>]
  /\ tiersRead = [p \in Procs |-> <<>>]
  /\ err = [p \in Procs |-> NoErr]
  /\ ref = [p \in Procs |-> NilPtr]
  /\ resp = [p \in Procs |-> NoResp]
  /\ cache = NilPtr /\ heap = <<>> /\ clock = 0
  /\ journal = <<>> /\ dateRange = <<>>
  /\ catSpending = {} /\ catSpendingFiltered = {}
  /\ NetWorthIdle
  /\ BudgetIdle
  /\ TiersIdle
  /\ balanceData \in BalanceOutputs
  /\ accounts = {}
  /\ settingsErr = NoErr /\ trendsFiltered = {} /\ runs = <<>>

\* a call of Parser.GetAccounts (filtered = FALSE) or of
\* Parser.GetAccountsFiltered (filtered = TRUE): the hledger command fails or
\* its output is read
CallGetAccounts(filtered) ==
  /\ \A a \in accounts : a.filtered # filtered
  /\ \/ accounts' = accounts \cup {[filtered |-> filtered, err |-> ErrUpstream, rows |-> <<>>]}
     \/ accounts' = accounts \cup
          {[filtered |-> filtered, err |-> NoErr,
            rows |-> IF filtered THEN GetAccountsFiltered(balanceData)
                     ELSE GetAccounts(balanceData)]}
  /\ UNCHANGED <<serviceVars, journal, dateRange, catSpending, catSpendingFiltered,
                 netWorthVars, budgetVars, tierVars, balanceData,
                 settingsErr, trendsFiltered, runs>>

NextAccounts == \E filtered \in BOOLEAN : CallGetAccounts(filtered)

SpecAccounts == InitAccounts /\ [][NextAccounts]_vars

\* C21: the accounts listing returns only accounts whose name starts with
\* "assets:" or "liabilities:", for every balance output of the ledger,
\* whether or not a date range is supplied.
C21_OnlyAssetsAndLiabilities ==
  \A a \in accounts :
     a.err = NoErr =>
        \A i \in DOMAIN a.rows :
           HasPrefix(a.rows[i].Name, "assets") \/ HasPrefix(a.rows[i].Name, "liabilities")

\* the magnitudes of the first amounts of the postings to prefix:category in
\* month, each mantissa / 10^places in units of 10^-MaxPlaces, summed; a
\* posting without amounts counts 0
FirstAmountTotal(j, prefix, category, month) ==
  LET S == MonthPostings(j, prefix, category, month)
      First(ik) == j[ik[1]].Postings[ik[2]].Amount[1].Quantity
      Magnitude(x) == IF x < 0 THEN 0 - x ELSE x
      Value(ik) ==
        IF j[ik[1]].Postings[ik[2]].Amount = <<>> THEN 0
        ELSE (Magnitude(First(ik).DecimalMantissa) * Pow10(MaxPlaces))
               \div Pow10(First(ik).DecimalPlaces)
  IN  SumOver([ik \in S |-> Value(ik)], S)

\* C22: for every non-negative mantissa and scale convertAmount returns
\* mantissa / 10^scale, with no rounding; a posting's value is taken from its
\* first amount only, and a posting with no amount contributes 0.
C22_FirstAmountExact ==
  /\ \A i \in DOMAIN journal : \A k \in DOMAIN journal[i].Postings :
        \A a \in DOMAIN journal[i].Postings[k].Amount :
           LET quantity == journal[i].Postings[k].Amount[a].Quantity
           IN  quantity.DecimalMantissa >= 0 =>
                  convertAmount(quantity) * Pow10(quantity.DecimalPlaces)
                    = quantity.DecimalMantissa * Pow10(MaxPlaces)
  /\ \A r \in catSpending :
        r.err = NoErr =>
           \A i \in DOMAIN r.rows :
              r.rows[i].Amount
                = Round2(FirstAmountTotal(journal, "expenses", r.rows[i].Category,
                                          r.rows[i].Month))

\* a month with rent posted as 7 and, second amount, 0.9, food posted without
\* amount, and food bought for 12.345: rent is 7.00 and food 12.35
C22_Witness ==
  \E r \in catSpending :
     /\ r.err = NoErr
     /\ Len(journal) = 2
     /\ journal[1].Date = journal[2].Date
     /\ \E i, k \in DOMAIN r.rows :
           /\ r.rows[i].Category = "rent" /\ r.rows[i].Amount = 700
           /\ r.rows[k].Category = "food" /\ r.rows[k].Amount = 1235

(* ====================== Settings: the tier operations ================== *)
\* DefaultSettings().Tiers
DefaultTiers ==
  << [Name |-> "Essential",
      Categories |-> <<"Groceries", "Utilities", "Insurance", "Transport">>,
      Color |-> "#27ae60"],
     [Name |-> "Discretionary",
      Categories |-> <<"Entertainment", "Dining", "Shopping", "Hobbies">>,
      Color |-> "#e74c3c"],
     [Name |-> "Fixed",
      Categories |-> <<"Rent", "Subscriptions", "Phone">>,
      Color |-> "#3498db"] >>

\* the first tier of name tierName, NilPtr when there is none
TierNamed(Tiers, tierName) ==
  LET named == {i \in DOMAIN Tiers : Tiers[i].Name = tierName}
  IN  IF named = {} THEN NilPtr ELSE CHOOSE i \in named : \A j \in named : i <= j

\* s without its element at index j: append(s[:j], s[j+1:]...)
RemoveAt(s, j) == [k \in 1..(Len(s) - 1) |-> IF k < j THEN s[k] ELSE s[k + 1]]

\* Settings.AddCategory: the category is appended to the first tier of that
\* name unless that tier lists it already
AddCategory(tierName, category) ==
  LET i == TierNamed(settingsTiers, tierName)
  IN  /\ IF i = NilPtr
           THEN settingsErr' = "tier not found" /\ UNCHANGED settingsTiers
         ELSE IF \E k \in DOMAIN settingsTiers[i].Categories :
                    settingsTiers[i].Categories[k] = category
           THEN settingsErr' = "category already exists in tier" /\ UNCHANGED settingsTiers
         ELSE /\ settingsTiers' = [settingsTiers EXCEPT ![i].Categories = Append(@, category)]
              /\ settingsErr' = NoErr
      /\ UNCHANGED <<serviceVars, journal, dateRange, catSpending, catSpendingFiltered,
                     netWorthVars, budgetVars, trends, detail, accountVars,
                     trendsFiltered, runs>>

\* Settings.RemoveCategory: the first listing of the category is cut out of
\* the first tier of that name that lists it
RemoveCategory(tierName, category) ==
  LET listing == {i \in DOMAIN settingsTiers :
                    /\ settingsTiers[i].Name = tierName
                    /\ \E k \in DOMAIN settingsTiers[i].Categories :
                          settingsTiers[i].Categories[k] = category}
  IN  /\ IF listing = {}
           THEN settingsErr' = "category not found in tier" /\ UNCHANGED settingsTiers
           ELSE LET i == CHOOSE x \in listing : \A y \in listing : x <= y
                    at == {k \in DOMAIN settingsTiers[i].Categories :
                             settingsTiers[i].Categories[k] = category}
                    j == CHOOSE x \in at : \A y \in at : x <= y
                IN  /\ settingsTiers' = [settingsTiers EXCEPT ![i].Categories = RemoveAt(@, j)]
                    /\ settingsErr' = NoErr
      /\ UNCHANGED <<serviceVars, journal, dateRange, catSpending, catSpendingFiltered,
                     netWorthVars, budgetVars, trends, detail, accountVars,
                     trendsFiltered, runs>>

\* Settings.CreateTier: a tier without categories is appended unless a tier
\* has the name
CreateTier(name, color) ==
  /\ IF TierNamed(settingsTiers, name) # NilPtr
       THEN settingsErr' = "tier already exists" /\ UNCHANGED settingsTiers
       ELSE /\ settingsTiers' = Append(settingsTiers,
                                       [Name |-> name, Categories |-> <<>>, Color |-> color])
            /\ settingsErr' = NoErr
  /\ UNCHANGED <<serviceVars, journal, dateRange, catSpending, catSpendingFiltered,
                 netWorthVars, budgetVars, trends, detail, accountVars,
                 trendsFiltered, runs>>

\* Settings.DeleteTier: the first tier of the name is cut out
DeleteTier(name) ==
  /\ IF TierNamed(settingsTiers, name) = NilPtr
       THEN settingsErr' = "tier not found" /\ UNCHANGED settingsTiers
       ELSE /\ settingsTiers' = RemoveAt(settingsTiers, TierNamed(settingsTiers, name))
            /\ settingsErr' = NoErr
  /\ UNCHANGED <<serviceVars, journal, dateRange, catSpending, catSpendingFiltered,
                 netWorthVars, budgetVars, trends, detail, accountVars,
                 trendsFiltered, runs>>

\* the names and categories the calls are made with
OperationTiers == {"Essential", "Fixed", "Extra"}
OperationCategories == {"Groceries", "Pets"}

InitSettings ==
  /\ pc = [p \in Procs |-> "idle"]
  /\ req = [p \in Procs |-> NoReq]
  /\ cacheMu = NoProc
  /\ cacheRefreshing = FALSE
  /\ svcSettings = 0
  /\ parserSettings = 0
  /\ ledger = 0
  /\ built = [p \in Procs |-> <<>>]
  /\ tiersRead = [p \in Procs |-> <<>>]
  /\ err = [p \in Procs |-> NoErr]
  /\ ref = [p \in Procs |-> NilPtr]
  /\ resp = [p \in Procs |-> NoResp]
  /\ cache = NilPtr /\ heap = <<>> /\ clock = 0
  /\ journal = <<>> /\ dateRange = <<>>
  /\ catSpending = {} /\ catSpendingFiltered = {}
  /\ NetWorthIdle
  /\ BudgetIdle
  /\ settingsTiers = DefaultTiers
  /\ trends = {} /\ detail = {}
  /\ RestIdle

NextSettings ==
  \/ \E tierName \in OperationTiers, category \in OperationCategories :
        AddCategory(tierName, category)
  \/ \E tierName \in OperationTiers, category \in OperationCategories :
        RemoveCategory(tierName, category)
  \/ \E name \in OperationTiers : CreateTier(name, "#9b59b6")
  \/ \E name \in OperationTiers : DeleteTier(name)

SpecSettings == InitSettings /\ [][NextSettings]_vars

\* C23: after any sequence of CreateTier, DeleteTier, AddCategory and
\* RemoveCategory calls starting from the default settings, every category is
\* claimed by at most one tier.
C23_OneTierPerCategory ==
  \A category \in UNION {{settingsTiers[i].Categories[k] :
                            k \in DOMAIN settingsTiers[i].Categories} :
                         i \in DOMAIN settingsTiers} :
     Cardinality({i \in DOMAIN settingsTiers :
                    \E k \in DOMAIN settingsTiers[i].Categories :
                       settingsTiers[i].Categories[k] = category}) <= 1

(* ===================== the installed snapshot's fields ================== *)
\* C24: an installed snapshot is immutable: once it is installed none of its
\* fields (stale and lastRefresh included) ever changes; the state changes
\* only by replacing the snapshot pointer.
C24_InstalledSnapshotImmutable ==
  [][cache # NilPtr => heap'[cache] = heap[cache]]_vars

(* ================ category trends: filtered against cached ============== *)
\* C25: for any transaction list and tier configuration, the filtered
\* category-trends builder called with a bound that holds every transaction
\* returns the same tier-rolled-up series (one entry per tier or untiered
\* category, monthly amounts summed across the tier's categories) as the
\* unfiltered category-trends builder on the same transactions.
C25_FilteredTrendsRollUp ==
  \A f \in trendsFiltered : \A t \in trends :
     (/\ f.err = NoErr /\ t.err = NoErr
      /\ GetTransactionsFiltered(journal, f.startDate, f.endDate) = journal)
        => f.rows = t.rows

(* ========================= the order of the output ====================== *)
MaxRuns == 2

\* the permutations of a set of entries
RECURSIVE Permutations_(_)
Permutations_(entries) ==
  IF entries = {} THEN {<<>>}
  ELSE UNION {{<<x>> \o rest : rest \in Permutations_(entries \ {x})} : x \in entries}

\* `for name, amount := range categoryTotals { breakdown = append(...) }`
\* followed by sort.Slice(breakdown, Amount > Amount): the map is ranged over
\* in an order that differs from run to run and the sort is not stable, so
\* entries of equal amount come out in any order
BreakdownOrders(entries) ==
  {breakdown \in Permutations_(entries) :
     \A i, j \in DOMAIN breakdown :
        i < j => ~(breakdown[j].Amount > breakdown[i].Amount)}

\* a run of Parser.GetTierDetailFiltered(tier, startDate, endDate); a later
\* run repeats the arguments of the first
CallGetTierDetailFiltered(tier, startDate, endDate) ==
  /\ Len(runs) < MaxRuns
  /\ runs # <<>> =>
        /\ runs[1].tier = tier
        /\ runs[1].startDate = startDate
        /\ runs[1].endDate = endDate
  /\ LET found == GetTierDetailFiltered(settingsTiers,
                     GetTransactionsFiltered(journal, startDate, endDate), tier)
         Run(error, result) == [tier |-> tier, startDate |-> startDate,
                                endDate |-> endDate, err |-> error, result |-> result]
     IN  \/ /\ found # NilDetail
            /\ runs' = Append(runs, Run(ErrUpstream, NilDetail))
         \/ /\ found = NilDetail
            /\ runs' = Append(runs, Run(NoErr, NilDetail))
         \/ /\ found # NilDetail
            /\ \E breakdown \in BreakdownOrders(found.Breakdown) :
                  runs' = Append(runs, Run(NoErr, [found EXCEPT !.Breakdown = breakdown]))
  /\ UNCHANGED <<serviceVars, journal, dateRange, catSpending, catSpendingFiltered,
                 netWorthVars, budgetVars, tierVars, accountVars, settingsErr,
                 trendsFiltered>>

NextRuns ==
  \E tier \in {"Essential", "Fixed", "Luxury"}, startDate \in StartDates,
     endDate \in EndDates :
        CallGetTierDetailFiltered(tier, startDate, endDate)

SpecRuns == InitTiers /\ [][NextRuns]_vars

\* C26: report output order is deterministic: for the same transactions and
\* settings two runs of a builder return identical ordered output, the detail
\* breakdown lists descending by amount, including when two breakdown entries
\* have equal amounts: here for the tier detail.
C26_SameOrderEveryRun ==
  \A i, j \in DOMAIN runs :
     (runs[i].err = NoErr /\ runs[j].err = NoErr /\ runs[i].result # NilDetail)
        => /\ runs[i].result = runs[j].result
           /\ \A k, l \in DOMAIN runs[i].result.Breakdown :
                 k < l => runs[i].result.Breakdown[k].Amount
                            >= runs[i].result.Breakdown[l].Amount

(* ==================== the in-progress flag is cleared =================== *)
\* SpecLive: concurrent cache refreshes, every RebuildCache call that has been
\* made keeps running: each ledger query returns, and a goroutine waiting in
\* cacheMu.Lock() gets the mutex (sync.RWMutex queues writers; a waiter is not
\* passed over forever), hence strong fairness on the steps of a call.
SpecLive ==
  /\ Init
  /\ [][NextRefresh]_vars
  /\ \A p \in Refreshers : SF_vars(RebuildSteps(p))

\* the step of caller p that is rejected as "already in progress"
C27_Rejected(p) == pc[p] = "rb_check" /\ pc'[p] = "done"

\* C27: every rebuild that starts eventually clears the rebuild-in-progress
\* flag, whether it succeeds or fails at any of its ledger queries (each query
\* returning), so the flag is never left set forever, and a rebuild requested
\* after the previous one has finished is never rejected as "already in
\* progress".
C27_FlagEventuallyCleared ==
  /\ \A p \in Refreshers : InFlight(p) ~> (pc[p] = "done" /\ ~cacheRefreshing)
  /\ cacheRefreshing ~> ~cacheRefreshing
  /\ [][\A p \in Refreshers :
          C27_Rejected(p) => \E q \in Refreshers \ {p} : InFlight(q)]_vars

\* a rebuild has failed at a ledger query, has cleared the flag and been
\* answered 500, and a snapshot installed before is still in place
C27_Witness ==
  \E p \in Refreshers :
     /\ pc[p] = "done" /\ err[p] = ErrUpstream /\ resp[p].code = 500
     /\ ~cacheRefreshing
     /\ cache # NilPtr

(* ================ the ledger changes during a rebuild =================== *)
MaxLedger == 2

\* the journal file is edited: from now on hledger reads the new content.
\* Nothing in the service takes part in this step.
LedgerChange ==
  /\ ledger < MaxLedger
  /\ ledger' = ledger + 1
  /\ UNCHANGED reportVars
  /\ UNCHANGED <<pc, req, cacheMu, cache, heap, cacheRefreshing, svcSettings,
                 parserSettings, clock, built, tiersRead, err, ref, resp>>

\* SpecLedger: a cache refresh running while the journal file is edited
NextLedger ==
  \/ \E p \in OneRefresher : RefreshSteps(p)
  \/ LedgerChange

SpecLedger == Init /\ [][NextLedger]_vars

\* C28: every installed snapshot is internally consistent: its accounts, its
\* transaction list and each of its report fields are all derived from one and
\* the same state of the ledger, even when the ledger content changes while
\* the rebuild is running.
C28_OneLedgerState ==
  cache # NilPtr =>
     \A i, j \in DOMAIN heap[cache].data : heap[cache].data[i] = heap[cache].data[j]

(* =================== a settings update that fails to save =============== *)
\* SpecSave: one PUT /api/settings, running against a cache refresh.  The
\* request is the only one of its behaviour, so what the service held before
\* it is what Init sets: settings 0 in the service and in the parser, and no
\* snapshot marked stale.
NextSave ==
  \/ \E p \in OneRefresher : RefreshSteps(p)
  \/ \E p \in Updaters :
        \/ \E v \in SettingsSet : UpdateBind(p, v)
        \/ UpdateSettings(p)
        \/ UpdateMark(p)
        \/ UpdateSave(p)

SpecSave == Init /\ [][NextSave]_vars

\* C29: if persisting the updated settings to disk fails, HandleUpdateSettings
\* reports an error and leaves the in-memory settings of the service, the
\* settings used by the parser and the snapshot's stale flag exactly as they
\* were before the request.
C29_FailedSaveChangesNothing ==
  \A u \in Updaters :
     (pc[u] = "done" /\ resp[u].msg = "failed to write settings file")
        => /\ resp[u].code = 500
           /\ svcSettings = 0
           /\ parserSettings = 0
           /\ \A i \in DOMAIN heap : ~heap[i].Stale

(* ================== removeOutliers keeps at least one value ============= *)
\* C30: removeOutliers never returns an empty list for a non-empty input: for
\* every input of length n >= 1 at least the element at sorted index
\* floor(n/4) is kept, so the budget-vs-actual average is never computed as a
\* division by zero.
C30_KeepsFirstQuartile ==
  \A b \in budget :
     b.err = NoErr =>
        /\ \A c \in AllCategories(journal, "expenses") :
              LET values == HistoricalValues(c)
                  kept == removeOutliers(values)
              IN  Len(values) >= 1 =>
                    /\ Len(kept) >= 1
                    /\ \E k \in DOMAIN kept : kept[k] = Q1(SortFloat64s(values))
        /\ \A i \in DOMAIN b.rows :
              LET kept == removeOutliers(HistoricalValues(b.rows[i].Category))
              IN  /\ Len(kept) >= 1
                  /\ b.rows[i].Average = RoundMean(SeqSum(kept), Len(kept))

\* the history 100, 200, 200, 200, 1000: both quartiles are 200, two of the
\* five values are dropped and the three at 200 are kept
C30_Witness ==
  \E b \in budget :
     /\ b.err = NoErr
     /\ \E i \in DOMAIN b.rows :
           LET values == HistoricalValues("food")
           IN  /\ b.rows[i].Category = "food"
               /\ Len(values) = 5
               /\ SeqSum(values) = 1700 * Pow10(MaxPlaces)
               /\ Len(removeOutliers(values)) = 3
               /\ b.rows[i].Average = 20000

====
